---- MODULE Spec2Model ----
(***************************************************************************)
(* Task dependency management of the ClickUp MCP server                    *)
(* (src/src/services/clickup/task/task-dependencies.ts).                   *)
(*                                                                         *)
(* The service holds no state of its own between calls: the state is the   *)
(* remote store's dependency records, the calls in flight (each suspended  *)
(* at one of its remote requests) and the response of the call that        *)
(* returned last.                                                          *)
(***************************************************************************)
EXTENDS Integers, Sequences, FiniteSets, TLC

VARIABLES
  deps,              \* remote store: the dependency records, in record order
  linkIsDependency,  \* remote store: does its /link resource feed `dependencies`
  readFailed,        \* history: a read of an existing task has failed
  calls,             \* history: number of calls begun
  pc,                \* per caller: where its call in flight is suspended
  req,               \* per caller: the parameters of its call in flight
  loc,               \* per caller: the locals of its call in flight
  sent,              \* per caller: the remote requests its call has issued
  response           \* the response of the call that returned last

vars == <<deps, linkIsDependency, readFailed, calls, pc, req, loc, sent, response>>

----------------------------------------------------------------------------
(* Bounds of the model. *)

MaxCalls == 2            \* calls begun in a behaviour
MaxItems == 2            \* items of a batch
MaxPairs == 2            \* IDs in the dependsOn arrays of a batch, in all
MaxEdges == 2            \* records of the store before the first call

----------------------------------------------------------------------------
(* Values. *)

Callers == {"c1"}

TaskIds == {"T1", "T2", "T3"}       \* tasks the remote store holds
MissingIds == {"missing-1"}         \* an ID the remote store does not hold
Ids == TaskIds \cup MissingIds

Undefined == "undefined"            \* an optional parameter left out
Null == "null"

Range(s) == {s[k] : k \in DOMAIN s}

\* JavaScript truthiness of an optional string or boolean parameter
\* (booleans are written "true" and "false").
Truthy(x) == x \notin {Undefined, Null, "false", ""}

----------------------------------------------------------------------------
(* Errors thrown by the service (ClickUpServiceError) and by the client. *)

ClickUpServiceError(message, code) == [message |-> message, code |-> code]

UnresolvedTaskError ==
  ClickUpServiceError("Unable to resolve task ID from provided parameters", "NOT_FOUND")
UnresolvedDependencyError ==
  ClickUpServiceError("Unable to resolve dependency task ID from provided parameters", "NOT_FOUND")
TaskNotRetrievedError ==
  ClickUpServiceError("Failed to retrieve task information", "NOT_FOUND")
SelfDependencyError ==
  ClickUpServiceError("Cannot create self-dependency", "VALIDATION")
CircularDependencyError ==
  ClickUpServiceError("Circular dependency detected: Target task already depends on source task", "VALIDATION")
\* what the client throws when the remote store answers a request with an error
RemoteError == [message |-> "Request failed", code |-> "REMOTE"]
\* what iterating a value that is not a list throws
NotIterableError == [message |-> "dependsOn is not iterable", code |-> "TYPE_ERROR"]
NoError == [message |-> "", code |-> ""]

----------------------------------------------------------------------------
(* The remote store and the requests the client issues to it. *)

Absent == ""                        \* a request part the request does not have

Request(method, resource, task, target, depends_on, dependency_type) ==
  [method |-> method, resource |-> resource, task |-> task, target |-> target,
   depends_on |-> depends_on, dependency_type |-> dependency_type]

\* GET /task/{id}
GetTaskRequest(id) == Request("GET", "task", id, Absent, Absent, -1)
\* the name search behind findTaskByName
\* the name search, within the list named when one is
FindTaskRequest(name, listName) ==
  Request("GET", "search", name,
          IF Truthy(listName) THEN listName ELSE Absent, Absent, -1)
\* POST /task/{taskId}/link/{dependsOnTaskId} with the body {}
PostLinkRequest(taskId, dependsOnTaskId) ==
  Request("POST", "link", taskId, dependsOnTaskId, Absent, -1)
\* DeleteLinkRequest keyed by the dependency first.
DeleteLinkRequestReversed(taskId, dependencyTaskId) ==
  Request("DELETE", "link", dependencyTaskId, taskId, Absent, -1)

\* DELETE /task/{taskId}/link/{dependencyTaskId}
DeleteLinkRequest(taskId, dependencyTaskId) ==
  Request("DELETE", "link", taskId, dependencyTaskId, Absent, -1)
\* POST /task/{taskId}/dependency with the body {depends_on, dependency_type: 0}
PostDependencyRequest(taskId, dependsOnTaskId) ==
  Request("POST", "dependency", taskId, Absent, dependsOnTaskId, 0)

IsWrite(r) == r.method \in {"POST", "DELETE"}
IsCreate(r) == r.method = "POST"
Writes(s) == SelectSeq(s, IsWrite)
Creates(s) == SelectSeq(s, IsCreate)
Reads(s) == SelectSeq(s, LAMBDA r : r.method = "GET")

\* One record of a task's `dependencies` array: task_id waits on depends_on.
Dependency(task_id, depends_on) == [task_id |-> task_id, depends_on |-> depends_on]

\* The `dependencies` array of the task record the store returns for id: the
\* records the task is part of, on either side.
TaskDependencies(id) ==
  SelectSeq(deps, LAMBDA d : d.task_id = id \/ d.depends_on = id)

\* getTask(id) throws: the store holds no such task, or this read fails.
GetTaskThrows(id, failing) == id \notin TaskIds \/ id \in failing

\* The tasks getTaskDependencies(id) reads: the task and the tasks it waits on.
ReadBy(id) ==
  ({id} \cup {d.depends_on : d \in {e \in Range(deps) : e.task_id = id}})
    \cap TaskIds

\* A read of a task the store holds failed among the requests issued.
ReadFailure(requests, failing) ==
  \E k \in DOMAIN requests :
    /\ requests[k].resource = "task"
    /\ requests[k].task \in failing \cap TaskIds

\* The store refuses a write that names a task it does not hold, and may
\* refuse any other write (it enforces its own rules).
Accepted(taskId, otherId, accept) ==
  accept /\ taskId \in TaskIds /\ otherId \in TaskIds

RecordAdded(records, taskId, dependsOnTaskId) ==
  IF Dependency(taskId, dependsOnTaskId) \in Range(records) THEN records
  ELSE Append(records, Dependency(taskId, dependsOnTaskId))

RecordRemoved(records, taskId, dependsOnTaskId) ==
  SelectSeq(records, LAMBDA d : d # Dependency(taskId, dependsOnTaskId))

\* The store's records after it accepted a write on its /link resource.
AfterPostLink(taskId, dependsOnTaskId) ==
  IF linkIsDependency THEN RecordAdded(deps, taskId, dependsOnTaskId) ELSE deps
AfterDeleteLink(taskId, dependencyTaskId) ==
  IF linkIsDependency THEN RecordRemoved(deps, taskId, dependencyTaskId) ELSE deps
\* The store's records after it accepted a write on its /dependency resource.
AfterPostDependency(taskId, dependsOnTaskId) ==
  RecordAdded(deps, taskId, dependsOnTaskId)

----------------------------------------------------------------------------
(* Pure parts of the service. *)

\* findTaskByName: the name search of the task service. "Task One" is the
\* name of T1 in "List A" and of T2 in "List B"; a search in no list finds T1.
FindTaskByName(taskName, listName) ==
  IF taskName # "Task One" THEN Null
  ELSE CASE ~Truthy(listName) -> "T1"
         [] listName = "List A" -> "T1"
         [] listName = "List B" -> "T2"
         [] OTHER -> Null

\* resolveTaskId looking the name up first when one is given.
ResolveTaskIdNameFirst(taskId, taskName, listName) ==
  IF Truthy(taskName) THEN FindTaskByName(taskName, listName)
  ELSE IF Truthy(taskId) THEN taskId
  ELSE Null

\* resolveTaskId: the ID when given, else the ID of the task found by name.
ResolveTaskId(taskId, taskName, listName) ==
  IF Truthy(taskId) THEN taskId
  ELSE IF Truthy(taskName) THEN FindTaskByName(taskName, listName)
  ELSE Null

\* the remote requests resolveTaskId issues
ResolveRequests(taskId, taskName, listName) ==
  IF ~Truthy(taskId) /\ Truthy(taskName)
  THEN <<FindTaskRequest(taskName, listName)>>
  ELSE <<>>

\* The subtasks of the task record the store returns for id: T2 is the
\* subtask of T1, and T3 the subtask of T2.
Subtasks(id) ==
  CASE id = "T1" -> <<"T2">>
    [] id = "T2" -> <<"T3">>
    [] OTHER -> <<>>

RECURSIVE Concat(_)
Concat(seqs) == IF seqs = <<>> THEN <<>> ELSE Head(seqs) \o Concat(Tail(seqs))

\* The records of the task's `dependencies` in which the task is the one
\* that waits.
OwnDependencies(taskId) ==
  SelectSeq(TaskDependencies(taskId),
            LAMBDA d : d.task_id = taskId /\ Truthy(d.depends_on))

\* WaitingOn giving up at the first counterpart that cannot be fetched.
WaitingOnUntilFailure(own, failing) ==
  LET bad == {k \in DOMAIN own : GetTaskThrows(own[k].depends_on, failing)}
      got == SelectSeq(own, LAMBDA d : ~GetTaskThrows(d.depends_on, failing))
  IN IF bad = {} THEN [k \in DOMAIN got |-> got[k].depends_on]
     ELSE LET first == CHOOSE k \in bad : \A j \in bad : k <= j
          IN [k \in 1..(first - 1) |-> own[k].depends_on]

\* The loop over the task's dependencies: the IDs of the counterparts that
\* could be fetched, in record order.
WaitingOn(own, failing) ==
  LET got == SelectSeq(own, LAMBDA d : ~GetTaskThrows(d.depends_on, failing))
  IN [k \in DOMAIN got |-> got[k].depends_on]

\* Blocking computed by search for the tasks that wait on the task.
BlockingByInverseSearch(taskId) ==
  LET waiting == SelectSeq(deps, LAMBDA d : d.depends_on = taskId)
  IN [k \in DOMAIN waiting |-> waiting[k].task_id]

\* The blocking list of a task's own entries: left empty.
Blocking(taskId) == <<>>

\* The query of a subtask asking for the subtask's own subtasks as well.
SubtaskParamsDeep(subtaskId) == [taskId |-> subtaskId, includeSubtasks |-> "true"]

\* The parameters of the query of a subtask.
SubtaskParams(subtaskId) == [taskId |-> subtaskId, includeSubtasks |-> "false"]

\* getTaskDependencies for a task given by ID.
\* failing: the tasks whose read fails while the query runs.
RECURSIVE GetTaskDependencies(_, _, _)
GetTaskDependencies(taskId, includeSubtasks, failing) ==
  IF ~Truthy(taskId) THEN
    [success |-> FALSE, error |-> UnresolvedTaskError,
     waiting_on |-> <<>>, blocking |-> <<>>, requests |-> <<>>]
  ELSE IF GetTaskThrows(taskId, failing) THEN
    [success |-> FALSE, error |-> RemoteError,
     waiting_on |-> <<>>, blocking |-> <<>>, requests |-> <<GetTaskRequest(taskId)>>]
  ELSE
    LET own == OwnDependencies(taskId)
        queried == IF Truthy(includeSubtasks)
                   THEN SelectSeq(Subtasks(taskId),
                                  LAMBDA st : TaskDependencies(st) # <<>>)
                   ELSE <<>>
        subtaskDeps == [k \in DOMAIN queried |->
                          LET p == SubtaskParams(queried[k])
                          IN GetTaskDependencies(p.taskId, p.includeSubtasks, failing)]
        added == SelectSeq(subtaskDeps, LAMBDA r : r.success)
    IN [success |-> TRUE, error |-> NoError,
        waiting_on |-> WaitingOn(own, failing)
                         \o Concat([k \in DOMAIN added |-> added[k].waiting_on]),
        blocking |-> Blocking(taskId)
                       \o Concat([k \in DOMAIN added |-> added[k].blocking]),
        requests |-> <<GetTaskRequest(taskId)>>
                       \o [k \in DOMAIN own |-> GetTaskRequest(own[k].depends_on)]
                       \o Concat([k \in DOMAIN subtaskDeps |-> subtaskDeps[k].requests])]

\* The subtasks of a task, however deep.
RECURSIVE Descendants(_)
Descendants(id) ==
  Range(Subtasks(id)) \cup UNION {Descendants(st) : st \in Range(Subtasks(id))}

\* The tasks a query may read: those of the task and, with includeSubtasks,
\* those of its subtasks.
QueryReads(id, includeSubtasks) ==
  IF Truthy(includeSubtasks)
  THEN UNION {ReadBy(t) : t \in {id} \cup Descendants(id)}
  ELSE ReadBy(id)

\* checkCircularDependency without its self-dependency test.
CheckCircularDependencyNoSelfTest(taskId, dependsOnTaskId, failing) ==
  LET depsResponse == GetTaskDependencies(dependsOnTaskId, Undefined, failing)
  IN IF depsResponse.success /\ taskId \in Range(depsResponse.waiting_on)
     THEN [threw |-> TRUE, error |-> CircularDependencyError,
           requests |-> depsResponse.requests]
     ELSE [threw |-> FALSE, error |-> NoError, requests |-> depsResponse.requests]

\* checkCircularDependency looking for the dependency among the tasks the
\* dependent waits on, instead of the reverse.
CheckCircularDependencyWrongSide(taskId, dependsOnTaskId, failing) ==
  IF taskId = dependsOnTaskId THEN
    [threw |-> TRUE, error |-> SelfDependencyError, requests |-> <<>>]
  ELSE
    LET depsResponse == GetTaskDependencies(taskId, Undefined, failing)
    IN IF depsResponse.success /\ dependsOnTaskId \in Range(depsResponse.waiting_on)
       THEN [threw |-> TRUE, error |-> CircularDependencyError,
             requests |-> depsResponse.requests]
       ELSE [threw |-> FALSE, error |-> NoError, requests |-> depsResponse.requests]

\* checkCircularDependency run after the creation request instead of before it.
CheckCircularDependencyAfterWrite(taskId, dependsOnTaskId, failing) ==
  LET post == <<PostDependencyRequest(taskId, dependsOnTaskId)>>
  IN IF taskId = dependsOnTaskId THEN
       [threw |-> TRUE, error |-> SelfDependencyError, requests |-> post]
     ELSE
       LET depsResponse == GetTaskDependencies(dependsOnTaskId, Undefined, failing)
       IN IF depsResponse.success /\ taskId \in Range(depsResponse.waiting_on)
          THEN [threw |-> TRUE, error |-> CircularDependencyError,
                requests |-> post \o depsResponse.requests]
          ELSE [threw |-> FALSE, error |-> NoError, requests |-> depsResponse.requests]

\* checkCircularDependency querying the dependency before its self-dependency test.
CheckCircularDependencyReadsFirst(taskId, dependsOnTaskId, failing) ==
  LET depsResponse == GetTaskDependencies(dependsOnTaskId, Undefined, failing)
  IN IF taskId = dependsOnTaskId THEN
       [threw |-> TRUE, error |-> SelfDependencyError,
        requests |-> depsResponse.requests]
     ELSE IF depsResponse.success /\ taskId \in Range(depsResponse.waiting_on)
     THEN [threw |-> TRUE, error |-> CircularDependencyError,
           requests |-> depsResponse.requests]
     ELSE [threw |-> FALSE, error |-> NoError, requests |-> depsResponse.requests]

\* checkCircularDependency following the waiting_on lists one hop further.
CheckCircularDependencyTwoHops(taskId, dependsOnTaskId, failing) ==
  IF taskId = dependsOnTaskId THEN
    [threw |-> TRUE, error |-> SelfDependencyError, requests |-> <<>>]
  ELSE
    LET depsResponse == GetTaskDependencies(dependsOnTaskId, Undefined, failing)
        further == {w \in Range(depsResponse.waiting_on) :
                      taskId \in Range(GetTaskDependencies(w, Undefined, failing).waiting_on)}
    IN IF depsResponse.success
            /\ (taskId \in Range(depsResponse.waiting_on) \/ further # {})
       THEN [threw |-> TRUE, error |-> CircularDependencyError,
             requests |-> depsResponse.requests]
       ELSE [threw |-> FALSE, error |-> NoError, requests |-> depsResponse.requests]

\* checkCircularDependency throwing when its query of the dependency fails.
CheckCircularDependencyFailsClosed(taskId, dependsOnTaskId, failing) ==
  IF taskId = dependsOnTaskId THEN
    [threw |-> TRUE, error |-> SelfDependencyError, requests |-> <<>>]
  ELSE
    LET depsResponse == GetTaskDependencies(dependsOnTaskId, Undefined, failing)
    IN IF ~depsResponse.success
       THEN [threw |-> TRUE, error |-> depsResponse.error,
             requests |-> depsResponse.requests]
       ELSE IF taskId \in Range(depsResponse.waiting_on)
       THEN [threw |-> TRUE, error |-> CircularDependencyError,
             requests |-> depsResponse.requests]
       ELSE [threw |-> FALSE, error |-> NoError, requests |-> depsResponse.requests]

\* checkCircularDependency: what it throws, if anything, and the requests it issues.
CheckCircularDependency(taskId, dependsOnTaskId, failing) ==
  IF taskId = dependsOnTaskId THEN
    [threw |-> TRUE, error |-> SelfDependencyError, requests |-> <<>>]
  ELSE
    LET depsResponse == GetTaskDependencies(dependsOnTaskId, Undefined, failing)
    IN IF depsResponse.success /\ taskId \in Range(depsResponse.waiting_on)
       THEN [threw |-> TRUE, error |-> CircularDependencyError,
             requests |-> depsResponse.requests]
       ELSE [threw |-> FALSE, error |-> NoError, requests |-> depsResponse.requests]

\* The type code of a waiting_on record (0 = waiting_on, 1 = blocking).
WaitingOnType == 0

\* The edge descriptor addTaskDependency returns.
AddedDependency(taskId, dependsOnTaskId) ==
  [task_id |-> taskId, depends_on |-> dependsOnTaskId, type |-> 1,
   userid |-> "", chain_id |-> Null]

----------------------------------------------------------------------------
(* Calls. *)

NoParams == [op |-> "none"]
NoLocals == [taskId |-> Null, dependsOnTaskId |-> Null]
NoResponse == [op |-> "none"]

\* The references the calls are given: an ID, a name, or both. Queries may
\* name the list of the task; adds and removes name no list.
IdArgs == Ids \cup {Undefined}
NoListArgs == {Undefined}
ListArgs == {"List B", Undefined}
NameArgs == {"Task One", "No Such Task", Undefined}

AddParams ==
  [op : {"add"}, taskId : IdArgs, taskName : NameArgs, listName : NoListArgs,
   dependsOnTaskId : IdArgs, dependsOnTaskName : NameArgs,
   dependsOnListName : NoListArgs]

\* A caller may begin a call when none is in flight and the response of the
\* last one has been taken.
CanBegin(c) ==
  /\ pc[c] = "idle"
  /\ \A d \in Callers \ {c} : pc[d] = "idle"
  /\ response = NoResponse
  /\ calls < MaxCalls

\* The call of c returns r: the response is handed over and nothing of the
\* call remains.
Returned(c, params, success, data, error, requests) ==
  /\ response' = [op |-> params.op, params |-> params, success |-> success,
                  data |-> data, error |-> error, sent |-> requests]
  /\ pc' = [pc EXCEPT ![c] = "idle"]
  /\ req' = [req EXCEPT ![c] = NoParams]
  /\ loc' = [loc EXCEPT ![c] = NoLocals]
  /\ sent' = [sent EXCEPT ![c] = <<>>]

Init ==
  /\ deps = <<>>
  /\ linkIsDependency \in BOOLEAN
  /\ readFailed = FALSE
  /\ calls = 0
  /\ pc = [c \in Callers |-> "idle"]
  /\ req = [c \in Callers |-> NoParams]
  /\ loc = [c \in Callers |-> NoLocals]
  /\ sent = [c \in Callers |-> <<>>]
  /\ response = NoResponse

\* addTaskDependency running its guard on the IDs as given, before the names
\* are resolved.
AddTaskDependencyGuardingGivenIds(c, params, failing) ==
  /\ calls' = calls + 1
  /\ UNCHANGED <<deps, linkIsDependency>>
  /\ LET taskId == ResolveTaskId(params.taskId, params.taskName, params.listName)
         dependsOnTaskId == ResolveTaskId(params.dependsOnTaskId,
                                          params.dependsOnTaskName,
                                          params.dependsOnListName)
         resolving == ResolveRequests(params.taskId, params.taskName, params.listName)
                        \o ResolveRequests(params.dependsOnTaskId,
                                           params.dependsOnTaskName,
                                           params.dependsOnListName)
     IN IF ~Truthy(taskId) THEN
          /\ Returned(c, params, FALSE, Null, UnresolvedTaskError, resolving)
          /\ UNCHANGED readFailed
        ELSE IF ~Truthy(dependsOnTaskId) THEN
          /\ Returned(c, params, FALSE, Null, UnresolvedDependencyError, resolving)
          /\ UNCHANGED readFailed
        ELSE
          LET guard == CheckCircularDependency(params.taskId, params.dependsOnTaskId,
                                               failing)
          IN /\ readFailed' = (readFailed \/ ReadFailure(guard.requests, failing))
             /\ IF guard.threw THEN
                  Returned(c, params, FALSE, Null, guard.error, resolving \o guard.requests)
                ELSE
                  /\ pc' = [pc EXCEPT ![c] = "addPost"]
                  /\ req' = [req EXCEPT ![c] = params]
                  /\ loc' = [loc EXCEPT ![c] =
                               [taskId |-> taskId, dependsOnTaskId |-> dependsOnTaskId]]
                  /\ sent' = [sent EXCEPT ![c] = resolving \o guard.requests]
                  /\ response' = NoResponse

\* addTaskDependency up to its POST: both references are resolved, the guard
\* runs, and the call either fails or suspends at the POST.
AddTaskDependencyWith(c, params, failing) ==
  /\ calls' = calls + 1
  /\ UNCHANGED <<deps, linkIsDependency>>
  /\ LET taskId == ResolveTaskId(params.taskId, params.taskName, params.listName)
         dependsOnTaskId == ResolveTaskId(params.dependsOnTaskId, params.dependsOnTaskName, params.dependsOnListName)
         resolving == ResolveRequests(params.taskId, params.taskName, params.listName)
                        \o ResolveRequests(params.dependsOnTaskId, params.dependsOnTaskName, params.dependsOnListName)
     IN IF ~Truthy(taskId) THEN
          /\ Returned(c, params, FALSE, Null, UnresolvedTaskError, resolving)
          /\ UNCHANGED readFailed
        ELSE IF ~Truthy(dependsOnTaskId) THEN
          /\ Returned(c, params, FALSE, Null, UnresolvedDependencyError, resolving)
          /\ UNCHANGED readFailed
        ELSE
          LET guard == CheckCircularDependency(taskId, dependsOnTaskId, failing)
          IN /\ readFailed' = (readFailed \/ ReadFailure(guard.requests, failing))
             /\ IF guard.threw THEN
                  Returned(c, params, FALSE, Null, guard.error, resolving \o guard.requests)
                ELSE
                  /\ pc' = [pc EXCEPT ![c] = "addPost"]
                  /\ req' = [req EXCEPT ![c] = params]
                  /\ loc' = [loc EXCEPT ![c] =
                               [taskId |-> taskId, dependsOnTaskId |-> dependsOnTaskId]]
                  /\ sent' = [sent EXCEPT ![c] = resolving \o guard.requests]
                  /\ response' = NoResponse

\* addTaskDependency writing the inverse edge for dependencyType blocking.
AddTaskDependencyPostInverseForBlocking(c, accept) ==
  /\ LET inverse == req[c].dependencyType = "blocking"
         taskId == IF inverse THEN loc[c].dependsOnTaskId ELSE loc[c].taskId
         dependsOnTaskId == IF inverse THEN loc[c].taskId ELSE loc[c].dependsOnTaskId
         post == PostLinkRequest(taskId, dependsOnTaskId)
     IN IF Accepted(taskId, dependsOnTaskId, accept) THEN
          /\ deps' = AfterPostLink(taskId, dependsOnTaskId)
          /\ Returned(c, req[c], TRUE, AddedDependency(taskId, dependsOnTaskId),
                      NoError, Append(sent[c], post))
        ELSE
          /\ deps' = deps
          /\ Returned(c, req[c], FALSE, Null, RemoteError,
                      Append(sent[c], post))
  /\ UNCHANGED <<linkIsDependency, readFailed, calls>>

\* addTaskDependency running its guard once more before its POST.
AddTaskDependencyPostGuardedAgain(c, accept) ==
  /\ LET taskId == loc[c].taskId
         dependsOnTaskId == loc[c].dependsOnTaskId
         post == PostLinkRequest(taskId, dependsOnTaskId)
         guard == CheckCircularDependency(taskId, dependsOnTaskId, {})
     IN IF guard.threw THEN
          /\ deps' = deps
          /\ Returned(c, req[c], FALSE, Null, guard.error, sent[c] \o guard.requests)
        ELSE IF Accepted(taskId, dependsOnTaskId, accept) THEN
          /\ deps' = AfterPostLink(taskId, dependsOnTaskId)
          /\ Returned(c, req[c], TRUE, AddedDependency(taskId, dependsOnTaskId),
                      NoError, Append(sent[c] \o guard.requests, post))
        ELSE
          /\ deps' = deps
          /\ Returned(c, req[c], FALSE, Null, RemoteError,
                      Append(sent[c] \o guard.requests, post))
  /\ UNCHANGED <<linkIsDependency, readFailed, calls>>

\* addTaskDependency from its POST on: the store answers and the call returns.
AddTaskDependencyPostWith(c, accept) ==
  /\ LET taskId == loc[c].taskId
         dependsOnTaskId == loc[c].dependsOnTaskId
         post == PostLinkRequest(taskId, dependsOnTaskId)
     IN IF Accepted(taskId, dependsOnTaskId, accept) THEN
          /\ deps' = AfterPostLink(taskId, dependsOnTaskId)
          /\ Returned(c, req[c], TRUE, AddedDependency(taskId, dependsOnTaskId),
                      NoError, Append(sent[c], post))
        ELSE
          /\ deps' = deps
          /\ Returned(c, req[c], FALSE, Null, RemoteError,
                      Append(sent[c], post))
  /\ UNCHANGED <<linkIsDependency, readFailed, calls>>

\* removeTaskDependency: both references are resolved and the DELETE is issued.
RemoveParams ==
  [op : {"remove"}, taskId : IdArgs, taskName : NameArgs, listName : NoListArgs,
   dependencyTaskId : IdArgs, dependencyTaskName : NameArgs,
   dependencyListName : NoListArgs]

RemoveTaskDependencyWith(c, params, accept) ==
  /\ calls' = calls + 1
  /\ UNCHANGED <<linkIsDependency, readFailed>>
  /\ LET taskId == ResolveTaskId(params.taskId, params.taskName, params.listName)
         dependencyTaskId == ResolveTaskId(params.dependencyTaskId, params.dependencyTaskName, params.dependencyListName)
         resolving == ResolveRequests(params.taskId, params.taskName, params.listName)
                        \o ResolveRequests(params.dependencyTaskId, params.dependencyTaskName, params.dependencyListName)
         delete == DeleteLinkRequest(taskId, dependencyTaskId)
     IN IF ~Truthy(taskId) THEN
          /\ deps' = deps
          /\ Returned(c, params, FALSE, Null, UnresolvedTaskError, resolving)
        ELSE IF ~Truthy(dependencyTaskId) THEN
          /\ deps' = deps
          /\ Returned(c, params, FALSE, Null, UnresolvedDependencyError, resolving)
        ELSE IF Accepted(taskId, dependencyTaskId, accept) THEN
          /\ deps' = AfterDeleteLink(taskId, dependencyTaskId)
          /\ Returned(c, params, TRUE, Null, NoError, Append(resolving, delete))
        ELSE
          /\ deps' = deps
          /\ Returned(c, params, FALSE, Null, RemoteError,
                      Append(resolving, delete))

\* getTaskDependencies as a call of its own.
GetParams ==
  [op : {"get"}, taskId : IdArgs, taskName : NameArgs, listName : ListArgs,
   includeSubtasks : {"true", "false", Undefined}]

GetDependenciesWith(c, params, failing) ==
  /\ calls' = calls + 1
  /\ UNCHANGED <<deps, linkIsDependency>>
  /\ LET taskId == ResolveTaskId(params.taskId, params.taskName, params.listName)
         resolving == ResolveRequests(params.taskId, params.taskName, params.listName)
         r == GetTaskDependencies(taskId, params.includeSubtasks, failing)
     IN /\ readFailed' = (readFailed \/ ReadFailure(r.requests, failing))
        /\ Returned(c, params, r.success,
                    [task_id |-> taskId, waiting_on |-> r.waiting_on, blocking |-> r.blocking],
                    r.error, resolving \o r.requests)

----------------------------------------------------------------------------
(* The handlers of the single tools: validation, then the service. *)

TaskReferenceRequiredError ==
  [message |-> "Either taskId or taskName must be provided", code |-> ""]
DependsOnReferenceRequiredError ==
  [message |-> "Either dependsOnTaskId or dependsOnTaskName must be provided",
   code |-> ""]
DependencyReferenceRequiredError ==
  [message |-> "Either dependencyTaskId or dependencyTaskName must be provided",
   code |-> ""]

\* The validation of handleAddTaskDependency testing the dependency
\* reference before the dependent one.
ValidateAddDependencyFirst(params) ==
  IF ~Truthy(params.dependsOnTaskId) /\ ~Truthy(params.dependsOnTaskName)
  THEN DependsOnReferenceRequiredError
  ELSE IF ~Truthy(params.taskId) /\ ~Truthy(params.taskName)
  THEN TaskReferenceRequiredError
  ELSE NoError

\* The validation of handleAddTaskDependency: the error it throws, if any.
ValidateAdd(params) ==
  IF ~Truthy(params.taskId) /\ ~Truthy(params.taskName)
  THEN TaskReferenceRequiredError
  ELSE IF ~Truthy(params.dependsOnTaskId) /\ ~Truthy(params.dependsOnTaskName)
  THEN DependsOnReferenceRequiredError
  ELSE NoError

\* The validation of handleRemoveTaskDependency.
ValidateRemove(params) ==
  IF ~Truthy(params.taskId) /\ ~Truthy(params.taskName)
  THEN TaskReferenceRequiredError
  ELSE IF ~Truthy(params.dependencyTaskId) /\ ~Truthy(params.dependencyTaskName)
  THEN DependencyReferenceRequiredError
  ELSE NoError

\* The validation of handleGetTaskDependencies.
ValidateGet(params) ==
  IF ~Truthy(params.taskId) /\ ~Truthy(params.taskName)
  THEN TaskReferenceRequiredError
  ELSE NoError

\* The handler throws before it calls the service.
Rejected(c, params, error) ==
  /\ calls' = calls + 1
  /\ UNCHANGED <<deps, linkIsDependency, readFailed>>
  /\ Returned(c, params, FALSE, Null, error, <<>>)

HandleAddTaskDependencyWith(c, params, failing) ==
  IF ValidateAdd(params) # NoError
  THEN Rejected(c, params, ValidateAdd(params))
  ELSE AddTaskDependencyWith(c, params, failing)

HandleRemoveTaskDependencyWith(c, params, accept) ==
  IF ValidateRemove(params) # NoError
  THEN Rejected(c, params, ValidateRemove(params))
  ELSE RemoveTaskDependencyWith(c, params, accept)

HandleGetTaskDependenciesWith(c, params, failing) ==
  IF ValidateGet(params) # NoError
  THEN Rejected(c, params, ValidateGet(params))
  ELSE GetDependenciesWith(c, params, failing)

\* What the catch block of a handler throws to its caller for a failure:
\* the message, after the handler's own words, and the parameters.
FailurePrefix(op) ==
  CASE op = "add" -> "Failed to add task dependency: "
    [] op = "remove" -> "Failed to remove task dependency: "
    [] op = "get" -> "Failed to get task dependencies: "

HandlerFailure(r) ==
  [error |-> <<FailurePrefix(r.op), r.error.message>>, params |-> r.params]

----------------------------------------------------------------------------
(* addBulkDependencies. *)

\* An item of the batch. iterable: its dependsOn is a list.
BulkItem(taskId, dependsOn, iterable) ==
  [taskId |-> taskId, dependsOn |-> dependsOn, iterable |-> iterable]

\* The items whose dependsOn holds at most n IDs; one item whose dependsOn
\* is empty and one whose dependsOn is not a list (their taskId is not read).
BulkItems(n) ==
  {BulkItem(t, d, TRUE) : t \in Ids, d \in UNION {[1..k -> Ids] : k \in 1..n}}
    \cup {BulkItem("T1", <<>>, TRUE), BulkItem("T1", <<>>, FALSE)}

\* The batches of at most m items that hold at most n pairs.
RECURSIVE BatchesOf(_, _)
BatchesOf(m, n) ==
  {<<>>} \cup
    (IF m = 0 THEN {}
     ELSE UNION {{<<it>> \o rest : rest \in BatchesOf(m - 1, n - Len(it.dependsOn))}
                   : it \in BulkItems(n)})

Batches == BatchesOf(MaxItems, MaxPairs)

BulkParams ==
  [op : {"bulk"}, dependencies : Batches,
   continueOnError : {"true", "false", Undefined}, retryCount : {0, 1}]

\* The pairs of a batch in input order.
RECURSIVE Flatten(_)
Flatten(dependencies) ==
  IF dependencies = <<>> THEN <<>>
  ELSE LET it == Head(dependencies)
       IN [k \in DOMAIN it.dependsOn |-> <<it.taskId, it.dependsOn[k]>>]
            \o Flatten(Tail(dependencies))

NoResults ==
  [successful |-> <<>>, failed |-> <<>>,
   summary |-> [total |-> 0, success |-> 0, failed |-> 0]]

Attempted(results) ==
  [results EXCEPT !.summary.total = @ + 1]

Succeeded(results, taskId, dependsOnTaskId) ==
  [results EXCEPT
     !.successful = Append(@, [taskId |-> taskId, dependsOn |-> dependsOnTaskId,
                               success |-> TRUE]),
     !.summary.success = @ + 1]

\* Failed without the count of failures.
FailedUncounted(results, taskId, dependsOnTaskId, error) ==
  [results EXCEPT
     !.failed = Append(@, [taskId |-> taskId, dependsOn |-> dependsOnTaskId,
                           error |-> IF error.message = "" THEN "Unknown error"
                                     ELSE error.message])]

\* Failed recording the item's task on both sides of the entry.
FailedWithoutDependsOn(results, taskId, dependsOnTaskId, error) ==
  [results EXCEPT
     !.failed = Append(@, [taskId |-> taskId, dependsOn |-> taskId,
                           error |-> IF error.message = "" THEN "Unknown error"
                                     ELSE error.message]),
     !.summary.failed = @ + 1]

Failed(results, taskId, dependsOnTaskId, error) ==
  [results EXCEPT
     !.failed = Append(@, [taskId |-> taskId, dependsOn |-> dependsOnTaskId,
                           error |-> IF error.message = "" THEN "Unknown error"
                                     ELSE error.message]),
     !.summary.failed = @ + 1]

\* Where the outer loop goes from item i on: it passes the items whose
\* dependsOn is empty, and throws at an item whose dependsOn is not a list.
RECURSIVE NextItem(_, _)
NextItem(dependencies, i) ==
  IF i > Len(dependencies) THEN [at |-> "end", i |-> i]
  ELSE IF ~dependencies[i].iterable THEN [at |-> "throw", i |-> i]
  ELSE IF dependencies[i].dependsOn = <<>> THEN NextItem(dependencies, i + 1)
  ELSE [at |-> "pair", i |-> i]

\* The call suspends before the pair j of item i.
BulkAt(c, params, i, j, results, requests) ==
  /\ pc' = [pc EXCEPT ![c] = "bulkGuard"]
  /\ req' = [req EXCEPT ![c] = params]
  /\ loc' = [loc EXCEPT ![c] =
               [taskId |-> params.dependencies[i].taskId,
                dependsOnTaskId |-> params.dependencies[i].dependsOn[j],
                i |-> i, j |-> j, results |-> results]]
  /\ sent' = [sent EXCEPT ![c] = requests]
  /\ response' = NoResponse

\* The outer loop returning the report it has when an item cannot be
\* iterated.
BulkFromReportsOnThrow(c, params, i, results, requests) ==
  LET next == NextItem(params.dependencies, i)
  IN CASE next.at = "end" ->
            Returned(c, params, TRUE, results, NoError, requests)
       [] next.at = "throw" ->
            Returned(c, params, TRUE, results, NoError, requests)
       [] next.at = "pair" ->
            BulkAt(c, params, next.i, 1, results, requests)

\* The outer loop starting the batch over when it ends with a failed pair.
BulkFromStartsOverOnFailure(c, params, i, results, requests) ==
  LET next == NextItem(params.dependencies, i)
  IN CASE next.at = "end" ->
            IF results.failed # <<>> /\ i > 1
            THEN BulkAt(c, params, NextItem(params.dependencies, 1).i, 1,
                        NoResults, <<>>)
            ELSE Returned(c, params, TRUE, results, NoError, requests)
       [] next.at = "throw" ->
            Returned(c, params, FALSE, Null, NotIterableError, requests)
       [] next.at = "pair" ->
            BulkAt(c, params, next.i, 1, results, requests)

\* The outer loop from item i on.
BulkFrom(c, params, i, results, requests) ==
  LET next == NextItem(params.dependencies, i)
  IN CASE next.at = "end" ->
            Returned(c, params, TRUE, results, NoError, requests)
       [] next.at = "throw" ->
            Returned(c, params, FALSE, Null, NotIterableError, requests)
       [] next.at = "pair" ->
            BulkAt(c, params, next.i, 1, results, requests)

\* BulkNext without the break of the inner loop.
BulkNextNoInnerBreak(c, results, failedNow, requests) ==
  LET params == req[c]
      i == loc[c].i
      j == loc[c].j
      stop == ~Truthy(params.continueOnError)
  IN IF j < Len(params.dependencies[i].dependsOn) THEN
       BulkAt(c, params, i, j + 1, results, requests)
     ELSE IF stop /\ Len(results.failed) > 0 THEN
       Returned(c, params, TRUE, results, NoError, requests)
     ELSE
       BulkFrom(c, params, i + 1, results, requests)

\* BulkNext stopping at a failure whatever continueOnError says.
BulkNextAlwaysStops(c, results, failedNow, requests) ==
  LET params == req[c]
      i == loc[c].i
      j == loc[c].j
  IN IF failedNow THEN
       Returned(c, params, TRUE, results, NoError, requests)
     ELSE IF j < Len(params.dependencies[i].dependsOn) THEN
       BulkAt(c, params, i, j + 1, results, requests)
     ELSE
       BulkFrom(c, params, i + 1, results, requests)

\* BulkNext rethrowing the failure of the pair when it stops.
BulkNextRethrows(c, results, failedNow, requests) ==
  LET params == req[c]
      i == loc[c].i
      j == loc[c].j
      stop == ~Truthy(params.continueOnError)
  IN IF stop /\ failedNow THEN
       Returned(c, params, FALSE, Null,
                [message |-> results.failed[Len(results.failed)].error,
                 code |-> "UNKNOWN"], requests)
     ELSE IF j < Len(params.dependencies[i].dependsOn) THEN
       BulkAt(c, params, i, j + 1, results, requests)
     ELSE IF stop /\ Len(results.failed) > 0 THEN
       Returned(c, params, TRUE, results, NoError, requests)
     ELSE
       BulkFrom(c, params, i + 1, results, requests)

\* The loops after the pair at hand is recorded in results.
BulkNext(c, results, failedNow, requests) ==
  LET params == req[c]
      i == loc[c].i
      j == loc[c].j
      stop == ~Truthy(params.continueOnError)
  IN IF stop /\ failedNow THEN
       Returned(c, params, TRUE, results, NoError, requests)
     ELSE IF j < Len(params.dependencies[i].dependsOn) THEN
       BulkAt(c, params, i, j + 1, results, requests)
     ELSE IF stop /\ Len(results.failed) > 0 THEN
       Returned(c, params, TRUE, results, NoError, requests)
     ELSE
       BulkFrom(c, params, i + 1, results, requests)

\* addBulkDependencies up to its first pair.
AddBulkDependenciesWith(c, params) ==
  /\ calls' = calls + 1
  /\ UNCHANGED <<deps, linkIsDependency, readFailed>>
  /\ BulkFrom(c, params, 1, NoResults, <<>>)

\* The requests of the add_bulk_dependencies tool. given: the request has a
\* `dependencies` array. An item may lack its taskId.
ItemsWithoutTaskId == {BulkItem(Undefined, <<d>>, TRUE) : d \in Ids}

HandlerBatches ==
  BatchesOf(MaxItems - 1, MaxPairs)
    \cup {<<m>> : m \in ItemsWithoutTaskId}
    \cup {<<it, m>> : it \in BulkItems(1), m \in ItemsWithoutTaskId}

HandlerParams ==
  [op : {"bulk"}, given : {TRUE}, dependencies : HandlerBatches,
   continueOnError : {"true", "false", Undefined}, retryCount : {0}]
    \cup [op : {"bulk"}, given : {FALSE}, dependencies : {<<>>},
          continueOnError : {"true", "false", Undefined}, retryCount : {0}]

DependenciesRequiredError ==
  [message |-> "Dependencies array is required and must not be empty",
   code |-> ""]
ItemTaskIdRequiredError ==
  [message |-> "Each dependency item must have a taskId", code |-> ""]

\* The validation of the handler asking only for the array to be there.
ValidateBulkPresenceOnly(params) ==
  IF ~params.given THEN DependenciesRequiredError ELSE NoError

\* The validation of handleAddBulkDependencies: the error it throws, if any.
ValidateBulk(params) ==
  IF ~params.given \/ params.dependencies = <<>> THEN DependenciesRequiredError
  ELSE IF \E k \in DOMAIN params.dependencies :
            ~Truthy(params.dependencies[k].taskId)
       THEN ItemTaskIdRequiredError
  ELSE NoError

\* handleAddBulkDependencies: validation, then the service.
HandleAddBulkDependenciesWith(c, params) ==
  LET invalid == ValidateBulk(params)
  IN IF invalid # NoError THEN
       /\ calls' = calls + 1
       /\ UNCHANGED <<deps, linkIsDependency, readFailed>>
       /\ Returned(c, params, FALSE, Null, invalid, <<>>)
     ELSE AddBulkDependenciesWith(c, params)

\* One pair up to its POST: the pair is counted and the guard runs.
BulkCheckWith(c, failing) ==
  /\ UNCHANGED <<deps, linkIsDependency, calls>>
  /\ LET taskId == loc[c].taskId
         dependsOnTaskId == loc[c].dependsOnTaskId
         results == Attempted(loc[c].results)
         guard == CheckCircularDependency(taskId, dependsOnTaskId, failing)
         requests == sent[c] \o guard.requests
     IN /\ readFailed' = (readFailed \/ ReadFailure(guard.requests, failing))
        /\ IF guard.threw THEN
             BulkNext(c, Failed(results, taskId, dependsOnTaskId, guard.error),
                      TRUE, requests)
           ELSE
             /\ pc' = [pc EXCEPT ![c] = "bulkPost"]
             /\ loc' = [loc EXCEPT ![c].results = results]
             /\ sent' = [sent EXCEPT ![c] = requests]
             /\ UNCHANGED <<req, response>>

\* One pair from its POST on: the store answers and the pair is recorded.
BulkPostWith(c, accept) ==
  /\ UNCHANGED <<linkIsDependency, readFailed, calls>>
  /\ LET taskId == loc[c].taskId
         dependsOnTaskId == loc[c].dependsOnTaskId
         post == PostDependencyRequest(taskId, dependsOnTaskId)
     IN IF Accepted(taskId, dependsOnTaskId, accept) THEN
          /\ deps' = AfterPostDependency(taskId, dependsOnTaskId)
          /\ BulkNext(c, Succeeded(loc[c].results, taskId, dependsOnTaskId),
                      FALSE, Append(sent[c], post))
        ELSE
          /\ deps' = deps
          /\ BulkNext(c, Failed(loc[c].results, taskId, dependsOnTaskId, RemoteError),
                      TRUE, Append(sent[c], post))

----------------------------------------------------------------------------
(* The operations, with their inputs and the answers of the remote store. *)

AddTaskDependency(c) ==
  /\ CanBegin(c)
  /\ \E params \in AddParams :
       \E failing \in SUBSET ReadBy(ResolveTaskId(params.dependsOnTaskId,
                                                  params.dependsOnTaskName, params.dependsOnListName)) :
         AddTaskDependencyWith(c, params, failing)

AddTaskDependencyPost(c) ==
  /\ pc[c] = "addPost"
  /\ \E accept \in BOOLEAN :
       AddTaskDependencyPostWith(c, accept)

HandleAddTaskDependency(c) ==
  /\ CanBegin(c)
  /\ \E params \in AddParams :
       \E failing \in SUBSET ReadBy(ResolveTaskId(params.dependsOnTaskId,
                                                  params.dependsOnTaskName,
                                                  params.dependsOnListName)) :
         HandleAddTaskDependencyWith(c, params, failing)

HandleRemoveTaskDependency(c) ==
  /\ CanBegin(c)
  /\ \E params \in RemoveParams, accept \in BOOLEAN :
       HandleRemoveTaskDependencyWith(c, params, accept)

HandleGetTaskDependencies(c) ==
  /\ CanBegin(c)
  /\ \E params \in GetParams :
       \E failing \in SUBSET QueryReads(ResolveTaskId(params.taskId, params.taskName,
                                                      params.listName),
                                        params.includeSubtasks) :
         HandleGetTaskDependenciesWith(c, params, failing)

RemoveTaskDependency(c) ==
  /\ CanBegin(c)
  /\ \E params \in RemoveParams, accept \in BOOLEAN :
       RemoveTaskDependencyWith(c, params, accept)

GetDependencies(c) ==
  /\ CanBegin(c)
  /\ \E params \in GetParams :
       \E failing \in SUBSET QueryReads(ResolveTaskId(params.taskId, params.taskName, params.listName),
                                        params.includeSubtasks) :
         GetDependenciesWith(c, params, failing)

AddBulkDependencies(c) ==
  /\ CanBegin(c)
  /\ \E params \in BulkParams :
       AddBulkDependenciesWith(c, params)

HandleAddBulkDependencies(c) ==
  /\ CanBegin(c)
  /\ \E params \in HandlerParams :
       HandleAddBulkDependenciesWith(c, params)

BulkCheck(c) ==
  /\ pc[c] = "bulkGuard"
  /\ \E failing \in SUBSET ReadBy(loc[c].dependsOnTaskId) :
       BulkCheckWith(c, failing)

BulkPost(c) ==
  /\ pc[c] = "bulkPost"
  /\ \E accept \in BOOLEAN :
       BulkPostWith(c, accept)

\* The caller takes the response of the call that returned.
Receive ==
  /\ response # NoResponse
  /\ response' = NoResponse
  /\ UNCHANGED <<deps, linkIsDependency, readFailed, calls, pc, req, loc, sent>>

----------------------------------------------------------------------------

Next ==
  \/ Receive
  \/ \E c \in Callers :
    \/ AddTaskDependency(c)
    \/ AddTaskDependencyPost(c)
    \/ RemoveTaskDependency(c)
    \/ GetDependencies(c)
    \/ AddBulkDependencies(c)
    \/ BulkCheck(c)
    \/ BulkPost(c)

Spec == Init /\ [][Next]_vars

\* The single operations alone.
SingleNext ==
  \/ Receive
  \/ \E c \in Callers :
    \/ AddTaskDependency(c)
    \/ AddTaskDependencyPost(c)
    \/ RemoveTaskDependency(c)
    \/ GetDependencies(c)

SingleSpec == Init /\ [][SingleNext]_vars

\* The dependency records a store may hold when the service is constructed
\* (other clients write to it): at most MaxEdges records between its tasks.
Edges == {Dependency(p[1], p[2]) : p \in {t \in TaskIds \X TaskIds : t[1] # t[2]}}

Graphs ==
  UNION {{g \in [1..n -> Edges] : \A i, j \in 1..n : i # j => g[i] # g[j]}
           : n \in 0..MaxEdges}

\* The state after construction over a store that holds records already.
QueryInit ==
  /\ deps \in Graphs
  /\ linkIsDependency \in BOOLEAN
  /\ readFailed = FALSE
  /\ calls = 0
  /\ pc = [c \in Callers |-> "idle"]
  /\ req = [c \in Callers |-> NoParams]
  /\ loc = [c \in Callers |-> NoLocals]
  /\ sent = [c \in Callers |-> <<>>]
  /\ response = NoResponse

\* getTaskDependencies alone, over the stores of QueryInit.
QueryNext ==
  \/ Receive
  \/ \E c \in Callers : GetDependencies(c)

QuerySpec == QueryInit /\ [][QueryNext]_vars

\* addBulkDependencies alone.
BulkNextStep ==
  \/ Receive
  \/ \E c \in Callers :
    \/ AddBulkDependencies(c)
    \/ BulkCheck(c)
    \/ BulkPost(c)

\* The state in which one call is left to begin and nothing is recorded: the
\* state after construction but for the count of calls.
BulkInit ==
  /\ deps = <<>>
  /\ linkIsDependency \in BOOLEAN
  /\ readFailed = FALSE
  /\ calls = MaxCalls - 1
  /\ pc = [c \in Callers |-> "idle"]
  /\ req = [c \in Callers |-> NoParams]
  /\ loc = [c \in Callers |-> NoLocals]
  /\ sent = [c \in Callers |-> <<>>]
  /\ response = NoResponse

\* One bulk add applied to the empty graph.
BulkSpec == BulkInit /\ [][BulkNextStep]_vars

\* The add_bulk_dependencies tool alone.
HandlerNext ==
  \/ Receive
  \/ \E c \in Callers :
    \/ HandleAddBulkDependencies(c)
    \/ BulkCheck(c)
    \/ BulkPost(c)

HandlerSpec == BulkInit /\ [][HandlerNext]_vars

\* One add, single or of one pair in bulk, over a store that holds records
\* already.
OnePairBatches == {<<BulkItem(t, <<d>>, TRUE)>> : t \in Ids, d \in Ids}

OnePairParams ==
  [op : {"bulk"}, dependencies : OnePairBatches,
   continueOnError : {"true", Undefined}, retryCount : {0}]

AddBulkDependenciesOfOnePair(c) ==
  /\ CanBegin(c)
  /\ \E params \in OnePairParams :
       AddBulkDependenciesWith(c, params)

GuardInit ==
  /\ deps \in Graphs
  /\ linkIsDependency \in BOOLEAN
  /\ readFailed = FALSE
  /\ calls = MaxCalls - 1
  /\ pc = [c \in Callers |-> "idle"]
  /\ req = [c \in Callers |-> NoParams]
  /\ loc = [c \in Callers |-> NoLocals]
  /\ sent = [c \in Callers |-> <<>>]
  /\ response = NoResponse

GuardNext ==
  \/ Receive
  \/ \E c \in Callers :
    \/ AddTaskDependency(c)
    \/ AddTaskDependencyPost(c)
    \/ AddBulkDependenciesOfOnePair(c)
    \/ BulkCheck(c)
    \/ BulkPost(c)

GuardSpec == GuardInit /\ [][GuardNext]_vars

\* Adds that say which kind of dependency they ask for.
DependencyTypes == {"waiting_on", "blocking", Undefined}

TypedAddParams ==
  [op : {"add"}, taskId : IdArgs, taskName : NameArgs, listName : NoListArgs,
   dependsOnTaskId : IdArgs, dependsOnTaskName : NameArgs,
   dependsOnListName : NoListArgs, dependencyType : DependencyTypes]

AddTypedTaskDependency(c) ==
  /\ CanBegin(c)
  /\ \E params \in TypedAddParams :
       \E failing \in SUBSET ReadBy(ResolveTaskId(params.dependsOnTaskId,
                                                  params.dependsOnTaskName,
                                                  params.dependsOnListName)) :
         AddTaskDependencyWith(c, params, failing)

TypedNext ==
  \/ Receive
  \/ \E c \in Callers :
    \/ AddTypedTaskDependency(c)
    \/ AddTaskDependencyPost(c)

TypedSpec == Init /\ [][TypedNext]_vars

\* The stores of the runs to completion: the empty one, and one in which the
\* subtask T2 of T1 and its own subtask T3 both wait on T1.
LiveStores == {<<>>, <<Dependency("T2", "T1"), Dependency("T3", "T1")>>}

LiveInit ==
  /\ deps \in LiveStores
  /\ linkIsDependency \in BOOLEAN
  /\ readFailed = FALSE
  /\ calls = MaxCalls - 1
  /\ pc = [c \in Callers |-> "idle"]
  /\ req = [c \in Callers |-> NoParams]
  /\ loc = [c \in Callers |-> NoLocals]
  /\ sent = [c \in Callers |-> <<>>]
  /\ response = NoResponse

LiveNext ==
  \/ Receive
  \/ \E c \in Callers :
    \/ GetDependencies(c)
    \/ AddBulkDependencies(c)
    \/ BulkCheck(c)
    \/ BulkPost(c)

\* One bulk add or one query run to completion. Every remote call returns:
\* the awaited reads of the guard and the awaited POST of a pair are taken
\* once the call waits on them.
LiveSpec ==
  /\ LiveInit
  /\ [][LiveNext]_vars
  /\ \A c \in Callers : WF_vars(BulkCheck(c)) /\ WF_vars(BulkPost(c))

\* Adds in flight together: each call suspends at its remote requests and
\* the service holds no lock, so a second call may begin, and run its guard,
\* while the first waits for the answer to its POST.
RaceCallers == {"c1", "c2"}

RaceParams ==
  [op : {"add"}, taskId : Ids, taskName : {Undefined}, listName : NoListArgs,
   dependsOnTaskId : Ids, dependsOnTaskName : {Undefined},
   dependsOnListName : NoListArgs]

RaceInit ==
  /\ deps = <<>>
  /\ linkIsDependency \in BOOLEAN
  /\ readFailed = FALSE
  /\ calls = 0
  /\ pc = [c \in RaceCallers |-> "idle"]
  /\ req = [c \in RaceCallers |-> NoParams]
  /\ loc = [c \in RaceCallers |-> NoLocals]
  /\ sent = [c \in RaceCallers |-> <<>>]
  /\ response = NoResponse

AddTaskDependencyConcurrently(c) ==
  /\ pc[c] = "idle"
  /\ response = NoResponse
  /\ calls < MaxCalls
  /\ \E params \in RaceParams :
       \E failing \in SUBSET ReadBy(params.dependsOnTaskId) :
         AddTaskDependencyWith(c, params, failing)

RaceNext ==
  \/ Receive
  \/ \E c \in RaceCallers :
    \/ AddTaskDependencyConcurrently(c)
    \/ AddTaskDependencyPost(c)

RaceSpec == RaceInit /\ [][RaceNext]_vars

\* The single tools called through their handlers.
ToolNext ==
  \/ Receive
  \/ \E c \in Callers :
    \/ HandleAddTaskDependency(c)
    \/ AddTaskDependencyPost(c)
    \/ HandleRemoveTaskDependency(c)
    \/ HandleGetTaskDependencies(c)

ToolSpec == Init /\ [][ToolNext]_vars

----------------------------------------------------------------------------
(* Properties. *)

\* The two resolved IDs of a single add.
AddTaskId(params) == ResolveTaskId(params.taskId, params.taskName, params.listName)
AddDependsOnTaskId(params) ==
  ResolveTaskId(params.dependsOnTaskId, params.dependsOnTaskName, params.dependsOnListName)

\* A single add returned for two references that both resolve.
AddReturned ==
  /\ response.op = "add"
  /\ Truthy(AddTaskId(response.params))
  /\ Truthy(AddDependsOnTaskId(response.params))

\* C1: an add whose two references resolve to the same task fails with the
\* self-dependency validation error, and an add fails with that error only
\* when its two resolved IDs are equal; no add with equal IDs reaches its POST.
C1_SelfDependencyIffEqualIds ==
  /\ AddReturned =>
       ((AddTaskId(response.params) = AddDependsOnTaskId(response.params))
          <=> (~response.success /\ response.error = SelfDependencyError))
  /\ response.op = "add" /\ response.error = SelfDependencyError =>
       /\ response.error.code = "VALIDATION"
       /\ AddTaskId(response.params) = AddDependsOnTaskId(response.params)
  /\ \A c \in Callers :
       pc[c] = "addPost" => loc[c].taskId # loc[c].dependsOnTaskId

\* add(T2, T2) has failed with the self-dependency error.
C1_Witness ==
  /\ response.op = "add"
  /\ response.params.taskId = "T2"
  /\ response.params.dependsOnTaskId = "T2"
  /\ ~response.success
  /\ response.error = SelfDependencyError

\* C2: whenever the store records that b waits on a, the guard rejects the
\* edge (a waits on b): no add of (a, b) gets past the guard to its POST.
C2_ReverseEdgeAlwaysRejected ==
  \A c \in Callers :
    pc[c] = "addPost" =>
      Dependency(loc[c].dependsOnTaskId, loc[c].taskId) \notin Range(deps)

\* The requests issued so far by the call of c (in flight or just returned).
CallLog(c) ==
  IF pc[c] # "idle" THEN sent[c]
  ELSE IF response.op # "none" THEN response.sent
  ELSE <<>>

\* The failed list of the bulk call of c (in flight or just returned).
BulkFailed(c) ==
  IF pc[c] \in {"bulkGuard", "bulkPost"} THEN loc[c].results.failed
  ELSE IF response.op = "bulk" /\ response.success THEN response.data.failed
  ELSE <<>>

LocalErrors ==
  {UnresolvedTaskError, UnresolvedDependencyError, SelfDependencyError,
   CircularDependencyError}
LocalMessages == {e.message : e \in LocalErrors}

AddFailedLocally ==
  response.op = "add" /\ ~response.success /\ response.error \in LocalErrors

\* C3: the step in which a single add fails with a local validation error
\* (unresolved reference, self-dependency, circular dependency), and the step
\* in which a pair of a bulk add is recorded as failed with such an error,
\* leave the store's records as they were, and the call has issued no
\* creation request for that pair.
C3_LocalFailureWritesNothing ==
  [][\A c \in Callers :
       /\ (~AddFailedLocally /\ AddFailedLocally') =>
            /\ deps' = deps
            /\ Creates(response'.sent) = <<>>
       /\ (/\ Len(BulkFailed(c)') = Len(BulkFailed(c)) + 1
           /\ BulkFailed(c)'[Len(BulkFailed(c)')].error \in LocalMessages) =>
            /\ deps' = deps
            /\ Creates(CallLog(c)') = Creates(CallLog(c))]_vars

\* A bulk add has recorded one pair as created and a later pair as failed
\* with the circular-dependency error.
C3_Witness ==
  /\ response.op = "bulk"
  /\ response.success
  /\ Len(response.data.successful) = 1
  /\ Len(response.data.failed) = 1
  /\ response.data.failed[1].error = CircularDependencyError.message
  /\ Len(Creates(response.sent)) = 1

\* No record (x, x), and no two records (a, b) and (b, a).
NoSelfLoopNoTwoCycle(records) ==
  \A d \in Range(records) :
    /\ d.task_id # d.depends_on
    /\ Dependency(d.depends_on, d.task_id) \notin Range(records)

\* C4: as long as no read of a task has failed, the operations (run one at a
\* time from the empty graph) leave no self-loop and no two-task cycle among
\* the store's dependency records.
C4_NoSelfLoopNoTwoCycle ==
  ~readFailed => NoSelfLoopNoTwoCycle(deps)

\* With an edge recorded and every read so far answered, a single add of the
\* reverse edge has been rejected as circular.
C4_Witness ==
  /\ ~readFailed
  /\ deps # <<>>
  /\ response.op = "add"
  /\ ~response.success
  /\ response.error = CircularDependencyError
  /\ Dependency(AddDependsOnTaskId(response.params), AddTaskId(response.params))
       \in Range(deps)

\* The (taskId, dependsOn) pairs of the entries of a report list.
PairsOf(entries) ==
  [k \in DOMAIN entries |-> <<entries[k].taskId, entries[k].dependsOn>>]

Count(seq, x) == Cardinality({k \in DOMAIN seq : seq[k] = x})

\* seq and the two lists together hold the same pairs, as often.
SamePairs(seq, ok, bad) ==
  \A x \in Range(seq) \cup Range(ok) \cup Range(bad) :
    Count(ok, x) + Count(bad, x) = Count(seq, x)

\* The creation requests of a log for the pair x.
CreatesFor(log, x) ==
  SelectSeq(log, LAMBDA r : IsCreate(r) /\ r.task = x[1] /\ r.depends_on = x[2])

\* A bulk add returned a report.
BulkReport == response.op = "bulk" /\ response.success

\* C5: a report of a bulk add without continueOnError (false or left out)
\* lists at most one failed pair; successful is the input, in order, up to
\* that pair, failed is that pair, and when nothing failed successful is the
\* whole input; the creation requests issued are for those pairs only;
\* total = success + failed; and while such a call is in flight it has no
\* failed pair: the step that records one is the step in which it returns.
C5_StopsAtFirstFailure ==
  /\ (BulkReport /\ ~Truthy(response.params.continueOnError) =>
          LET flat == Flatten(response.params.dependencies)
              r == response.data
              ok == PairsOf(r.successful)
              bad == PairsOf(r.failed)
          IN /\ Len(bad) <= 1
             /\ Len(ok) + Len(bad) <= Len(flat)
             /\ ok = SubSeq(flat, 1, Len(ok))
             /\ Len(bad) = 1 => bad[1] = flat[Len(ok) + 1]
             /\ Len(bad) = 0 => Len(ok) = Len(flat)
             /\ r.summary.total = r.summary.success + r.summary.failed
             /\ r.summary.total = Len(ok) + Len(bad)
             /\ Len(Creates(response.sent)) <= Len(ok) + Len(bad)
             /\ \A k \in DOMAIN response.sent :
                  IsCreate(response.sent[k]) =>
                    <<response.sent[k].task, response.sent[k].depends_on>>
                      \in Range(SubSeq(flat, 1, Len(ok) + Len(bad))))
  /\ \A c \in Callers :
       (pc[c] \in {"bulkGuard", "bulkPost"} /\ ~Truthy(req[c].continueOnError))
         => loc[c].results.failed = <<>>

\* A bulk add without continueOnError returned after its first pair failed,
\* with a pair of a later item left.
C5_Witness ==
  /\ BulkReport
  /\ response.params.continueOnError = "false"
  /\ Len(response.params.dependencies) = 2
  /\ Len(Flatten(response.params.dependencies)) = 2
  /\ Len(response.params.dependencies[1].dependsOn) = 1
  /\ response.data.successful = <<>>
  /\ Len(response.data.failed) = 1
  /\ response.data.summary.total = 1

\* C6: a report of a bulk add with continueOnError has total equal to the
\* sum of the lengths of the dependsOn arrays of the batch, and lists as many
\* pairs.
C6_ContinueAttemptsEveryPair ==
  BulkReport /\ Truthy(response.params.continueOnError) =>
    LET flat == Flatten(response.params.dependencies)
        r == response.data
    IN /\ r.summary.total = Len(flat)
       /\ Len(r.successful) + Len(r.failed) = Len(flat)

\* With continueOnError, the first pair failed and the second, of another
\* item, was created.
C6_Witness ==
  /\ BulkReport
  /\ response.params.continueOnError = "true"
  /\ Len(response.params.dependencies) = 2
  /\ Len(Flatten(response.params.dependencies)) = 2
  /\ response.data.summary.total = 2
  /\ Len(response.data.failed) = 1
  /\ Len(response.data.successful) = 1
  /\ PairsOf(response.data.failed)[1] = Flatten(response.params.dependencies)[1]

\* C7: in every report of a bulk add, success and failed are the lengths of
\* the two lists, total is their sum, and the two lists hold the first total
\* pairs of the input: total counts the pairs attempted.
C7_SummaryCountsAttempts ==
  BulkReport =>
    LET flat == Flatten(response.params.dependencies)
        r == response.data
    IN /\ r.summary.success = Len(r.successful)
       /\ r.summary.failed = Len(r.failed)
       /\ r.summary.total = r.summary.success + r.summary.failed
       /\ r.summary.total <= Len(flat)
       /\ SamePairs(SubSeq(flat, 1, r.summary.total),
                    PairsOf(r.successful), PairsOf(r.failed))

\* A report whose total is less than the number of pairs requested.
C7_Witness ==
  /\ BulkReport
  /\ response.data.summary.total = 1
  /\ response.data.summary.failed = 1
  /\ Len(Flatten(response.params.dependencies)) = 2

\* C8: a pair is recorded in failed after the store refused its creation
\* only once the creation was requested retryCount + 1 times.
C8_FailedPairWasRetried ==
  BulkReport =>
    \A k \in DOMAIN response.data.failed :
      response.data.failed[k].error = RemoteError.message =>
        Len(CreatesFor(response.sent, PairsOf(response.data.failed)[k]))
          >= response.params.retryCount + 1

\* C9: a bulk add fails at top level only by the structural error of an item
\* whose dependsOn is not a list, and never when every item is well formed,
\* whatever continueOnError is; in a report, every creation request the
\* store refused and every self-pair attempted is recorded in failed.
C9_PairFailureIsReported ==
  response.op = "bulk" =>
    LET items == response.params.dependencies
        flat == Flatten(items)
    IN /\ (\A i \in DOMAIN items : items[i].iterable) => response.success
       /\ ~response.success =>
            /\ response.error = NotIterableError
            /\ \E i \in DOMAIN items : ~items[i].iterable
       /\ response.success =>
            LET r == response.data
                refused == SelectSeq(r.failed,
                                     LAMBDA e : e.error = RemoteError.message)
            IN /\ Len(Creates(response.sent)) = Len(r.successful) + Len(refused)
               /\ \A k \in 1..r.summary.total :
                    flat[k][1] = flat[k][2] => flat[k] \in Range(PairsOf(r.failed))

\* Without continueOnError, a pair the store refused is reported in failed
\* by a call that succeeded.
C9_Witness ==
  /\ BulkReport
  /\ response.params.continueOnError = "false"
  /\ Len(response.data.failed) = 1
  /\ response.data.failed[1].error = RemoteError.message

\* the batch [{taskId: T3, dependsOn: [T1, missing-1]}]
ScenarioBatch == <<BulkItem("T3", <<"T1", "missing-1">>, TRUE)>>

\* C10: in a report of a bulk add with continueOnError, the two lists hold
\* the pairs of the input, each as often as the input; a pair in successful
\* names two tasks of the store, was requested and is recorded by the store;
\* an entry of failed carries its pair and a message: the self-dependency
\* message exactly for a self-pair, the circular-dependency message only
\* when the store records the reverse edge, the store's message only when
\* the creation was requested; and the creation of a pair was requested as
\* often as the pair is in successful or in failed with the store's message
\* (the guard passed and the store answered), whatever failed before it.
\* For the batch [{T3, [T1, missing-1]}]:
\* total is 2 and (T3, missing-1) is in failed, and when the store accepted
\* (T3, T1) the report is successful = [(T3, T1)], failed = [(T3, missing-1)],
\* summary = {total 2, success 1, failed 1}.
C10_ContinueReportsEachPair ==
  BulkReport /\ Truthy(response.params.continueOnError) =>
    LET flat == Flatten(response.params.dependencies)
        r == response.data
        ok == PairsOf(r.successful)
        bad == PairsOf(r.failed)
    IN /\ SamePairs(flat, ok, bad)
       /\ \A k \in DOMAIN ok :
            /\ r.successful[k].success
            /\ ok[k][1] \in TaskIds /\ ok[k][2] \in TaskIds
            /\ ok[k][1] # ok[k][2]
            /\ CreatesFor(response.sent, ok[k]) # <<>>
            /\ Dependency(ok[k][1], ok[k][2]) \in Range(deps)
       /\ \A k \in DOMAIN bad :
            /\ r.failed[k].error \in
                 {SelfDependencyError.message, CircularDependencyError.message,
                  RemoteError.message}
            /\ r.failed[k].error = SelfDependencyError.message
                 <=> bad[k][1] = bad[k][2]
            /\ r.failed[k].error = RemoteError.message
                 => CreatesFor(response.sent, bad[k]) # <<>>
            /\ r.failed[k].error = CircularDependencyError.message
                 => Dependency(bad[k][2], bad[k][1]) \in Range(deps)
       /\ \A x \in Range(flat) :
            Len(CreatesFor(response.sent, x)) =
              Count(ok, x)
                + Cardinality({k \in DOMAIN bad :
                                 /\ bad[k] = x
                                 /\ r.failed[k].error = RemoteError.message})
       /\ response.params.dependencies = ScenarioBatch =>
            /\ r.summary.total = 2
            /\ bad[Len(bad)] = <<"T3", "missing-1">>
            /\ Dependency("T3", "T1") \in Range(deps) =>
                 /\ ok = << <<"T3", "T1">> >>
                 /\ bad = << <<"T3", "missing-1">> >>
                 /\ r.summary = [total |-> 2, success |-> 1, failed |-> 1]

\* The batch [{T3, [T1, missing-1]}] with continueOnError returned
\* successful = [(T3, T1)] and failed = [(T3, missing-1)].
C10_Witness ==
  /\ BulkReport
  /\ response.params.continueOnError = "true"
  /\ response.params.dependencies = ScenarioBatch
  /\ PairsOf(response.data.successful) = << <<"T3", "T1">> >>
  /\ PairsOf(response.data.failed) = << <<"T3", "missing-1">> >>
  /\ response.data.summary = [total |-> 2, success |-> 1, failed |-> 1]

----------------------------------------------------------------------------

\* The records hold a cycle through three distinct tasks.
ThreeCycle(records) ==
  \E a, b, d \in TaskIds :
    /\ a # b /\ b # d /\ a # d
    /\ {Dependency(a, b), Dependency(b, d), Dependency(d, a)} \subseteq Range(records)

\* C11: the guard looks one hop only: an add, and a pair of a bulk add, is
\* rejected as circular only when the store records the direct reverse edge,
\* whatever longer paths the records hold; a pair that closes a longer path
\* passes the guard and its creation is requested.
C11_GuardIsOneHop ==
  /\ (response.op = "add" /\ response.error = CircularDependencyError) =>
       Dependency(AddDependsOnTaskId(response.params), AddTaskId(response.params))
         \in Range(deps)
  /\ BulkReport =>
       \A k \in DOMAIN response.data.failed :
         response.data.failed[k].error = CircularDependencyError.message =>
           Dependency(response.data.failed[k].dependsOn,
                      response.data.failed[k].taskId) \in Range(deps)
  /\ \A c \in Callers :
       (/\ pc[c] = "bulkGuard"
        /\ loc[c].results.failed # <<>>
        /\ loc[c].results.failed[Len(loc[c].results.failed)].error
             = CircularDependencyError.message) =>
         Dependency(loc[c].results.failed[Len(loc[c].results.failed)].dependsOn,
                    loc[c].results.failed[Len(loc[c].results.failed)].taskId)
           \in Range(deps)

\* With T1 waiting on T2 and T2 on T3 recorded, a call has created the edge
\* (T3 waits on T1): the records hold a cycle of length 3.
C11_Witness ==
  /\ response.op \in {"add", "bulk"}
  /\ response.success
  /\ Len(Creates(response.sent)) = 1
  /\ Creates(response.sent)[1].task = "T3"
  /\ "T1" \in {Creates(response.sent)[1].target, Creates(response.sent)[1].depends_on}
  /\ {Dependency("T1", "T2"), Dependency("T2", "T3"), Dependency("T3", "T1")}
       \subseteq Range(deps)
  /\ ThreeCycle(deps)

\* C12: a single add whose taskId and dependsOnTaskId are given and equal
\* fails with the self-dependency error and has issued no remote request at
\* all: no name lookup, no read of a task, no write.
C12_SelfDependencyIssuesNoRequest ==
  (/\ response.op = "add"
   /\ Truthy(response.params.taskId)
   /\ response.params.taskId = response.params.dependsOnTaskId) =>
    /\ ~response.success
    /\ response.error = SelfDependencyError
    /\ response.sent = <<>>

\* add(T1, T1), both given by ID and without names, has failed with the
\* self-dependency error and an empty request log.
C12_Witness ==
  /\ response.op = "add"
  /\ response.params.taskId = "T1"
  /\ response.params.dependsOnTaskId = "T1"
  /\ response.params.taskName = Undefined
  /\ response.params.dependsOnTaskName = Undefined
  /\ response.error = SelfDependencyError
  /\ response.sent = <<>>

\* The two resolved IDs of a remove.
RemoveTaskId(params) == ResolveTaskId(params.taskId, params.taskName, params.listName)
RemoveDependencyTaskId(params) ==
  ResolveTaskId(params.dependencyTaskId, params.dependencyTaskName, params.dependencyListName)

\* C13: once remove(a, b) has succeeded, whether the edge was created by a
\* single add or by a bulk add, a query of a's dependencies (every read
\* answered) returns a waiting_on list without b.
C13_RemoveUndoesAdd ==
  (response.op = "remove" /\ response.success) =>
    RemoveDependencyTaskId(response.params) \notin
      Range(GetTaskDependencies(RemoveTaskId(response.params), Undefined, {}).waiting_on)

\* The tasks the records say id waits on, in record order.
RecordedWaitingOn(id) ==
  LET own == SelectSeq(deps, LAMBDA d : d.task_id = id)
  IN [k \in DOMAIN own |-> own[k].depends_on]

\* The task a query is about.
GetTaskId(params) == ResolveTaskId(params.taskId, params.taskName, params.listName)

\* C14: in every state, a query of a task of the store all of whose reads are
\* answered succeeds and returns in waiting_on one entry, in record order,
\* for each edge the store records for the task, and no other; a query that
\* returned to its caller returned entries of the records of that time; and
\* once a single add of (t, d) has succeeded, a query of t's dependencies
\* returns d in waiting_on.
C14_AddedEdgeIsReported ==
  /\ \A t \in TaskIds :
       /\ GetTaskDependencies(t, Undefined, {}).success
       /\ GetTaskDependencies(t, Undefined, {}).waiting_on = RecordedWaitingOn(t)
  /\ (response.op = "get" /\ response.success) =>
       Range(response.data.waiting_on)
         \subseteq Range(RecordedWaitingOn(GetTaskId(response.params)))
  /\ (response.op = "add" /\ response.success) =>
       AddDependsOnTaskId(response.params) \in
         Range(GetTaskDependencies(AddTaskId(response.params), Undefined, {}).waiting_on)

\* C15: a remove whose two references resolve issues no read of a task and
\* exactly one write, the last request of the call: a deletion keyed by
\* (task, dependency), whatever the records hold (no guard runs); with both
\* given by ID it is the only request. It returns success, or the failure of
\* the store as a failure result. A remove with a reference that does not
\* resolve fails with NOT_FOUND and issues no write.
C15_RemoveIssuesOneDeletion ==
  response.op = "remove" =>
    LET t == RemoveTaskId(response.params)
        d == RemoveDependencyTaskId(response.params)
        log == response.sent
    IN IF Truthy(t) /\ Truthy(d) THEN
         /\ Len(Writes(log)) = 1
         /\ log[Len(log)].method = "DELETE"
         /\ log[Len(log)].task = t
         /\ log[Len(log)].target = d
         /\ \A k \in DOMAIN log : log[k].resource # "task"
         /\ (Truthy(response.params.taskId)
               /\ Truthy(response.params.dependencyTaskId)) => Len(log) = 1
         /\ response.success \/ response.error = RemoteError
       ELSE
         /\ ~response.success
         /\ response.error.code = "NOT_FOUND"
         /\ Writes(log) = <<>>

\* remove(T1, T2) by ID, with no edge recorded, was refused by the store and
\* returned a failure after its one deletion request.
C15_Witness ==
  /\ response.op = "remove"
  /\ response.params.taskId = "T1"
  /\ response.params.dependencyTaskId = "T2"
  /\ deps = <<>>
  /\ ~response.success
  /\ response.error = RemoteError
  /\ Len(response.sent) = 1
  /\ response.sent[1].method = "DELETE"

----------------------------------------------------------------------------

IncludeSubtasksArgs == {"true", "false", Undefined}

\* C16: the blocking list of every result of a query is empty, with or
\* without includeSubtasks, with every read answered or not, also for a task
\* that other tasks are recorded to wait on.
C16_BlockingIsEmpty ==
  /\ response.op = "get" => response.data.blocking = <<>>
  /\ \A t \in TaskIds, inc \in IncludeSubtasksArgs, failing \in SUBSET TaskIds :
       GetTaskDependencies(t, inc, failing).blocking = <<>>

\* A query of T2 with includeSubtasks, while the store records that T1 waits
\* on T2, succeeded with an empty blocking list.
C16_Witness ==
  /\ response.op = "get"
  /\ response.success
  /\ GetTaskId(response.params) = "T2"
  /\ response.params.includeSubtasks = "true"
  /\ Dependency("T1", "T2") \in Range(deps)
  /\ response.data.blocking = <<>>

\* The recorded waiting_on entries of id but those in skipped, in record order.
RecordedBut(id, skipped) ==
  SelectSeq(RecordedWaitingOn(id), LAMBDA d : d \notin skipped)

\* C17: a query (without includeSubtasks) of a task whose own read is
\* answered succeeds whichever counterpart reads fail: it requests every
\* counterpart and returns, in record order, the entries of the recorded
\* edges whose counterpart was fetched, leaving out only the others; and the
\* result such a query returned to its caller is of that form.
C17_FailedCounterpartIsSkipped ==
  /\ \A t \in TaskIds : \A failing \in SUBSET (TaskIds \ {t}) :
       LET r == GetTaskDependencies(t, Undefined, failing)
       IN /\ r.success
          /\ r.waiting_on = RecordedBut(t, failing)
          /\ Len(r.requests) = 1 + Len(RecordedWaitingOn(t))
  /\ (/\ response.op = "get"
      /\ response.success
      /\ ~Truthy(response.params.includeSubtasks)) =>
       LET t == GetTaskId(response.params)
       IN /\ \E failing \in SUBSET (TaskIds \ {t}) :
               response.data.waiting_on = RecordedBut(t, failing)
          /\ Len(Reads(response.sent)) =
               Len(ResolveRequests(response.params.taskId, response.params.taskName, response.params.listName))
                 + 1 + Len(RecordedWaitingOn(t))

\* A query of T1, recorded to wait on T2 and then on T3, succeeded with T3
\* as its only waiting_on entry: the fetch of T2 failed and was skipped.
C17_Witness ==
  /\ response.op = "get"
  /\ response.success
  /\ response.params.includeSubtasks = Undefined
  /\ GetTaskId(response.params) = "T1"
  /\ RecordedWaitingOn("T1") = <<"T2", "T3">>
  /\ response.data.waiting_on = <<"T3">>
  /\ readFailed

\* The entries of the direct subtasks of id, subtask after subtask: those of
\* a subtask whose own read fails are left out.
SubtaskEntries(id, failing) ==
  Concat([k \in DOMAIN Subtasks(id) |->
            IF Subtasks(id)[k] \in failing THEN <<>>
            ELSE RecordedBut(Subtasks(id)[k], failing)])

\* The waiting_on list a query of id is to return.
ExpectedWaitingOn(id, includeSubtasks, failing) ==
  IF Truthy(includeSubtasks)
  THEN RecordedBut(id, failing) \o SubtaskEntries(id, failing)
  ELSE RecordedBut(id, failing)

\* C18: with includeSubtasks true the waiting_on list of a query is the
\* task's own entries followed by the own entries of each of its direct
\* subtasks, and nothing of a subtask's subtasks; with includeSubtasks false
\* or omitted it is the task's own entries and the only requests are the read
\* of the task and of the tasks it waits on. The blocking list is empty in
\* both cases.
C18_SubtasksOneLevelDeep ==
  /\ \A t \in TaskIds : \A failing \in SUBSET (TaskIds \ {t}) :
       \A inc \in IncludeSubtasksArgs :
         LET r == GetTaskDependencies(t, inc, failing)
         IN /\ r.waiting_on = ExpectedWaitingOn(t, inc, failing)
            /\ r.blocking = <<>>
            /\ ~Truthy(inc) =>
                 r.requests = <<GetTaskRequest(t)>>
                   \o [k \in DOMAIN RecordedWaitingOn(t) |->
                         GetTaskRequest(RecordedWaitingOn(t)[k])]
  /\ (response.op = "get" /\ response.success) =>
       LET t == GetTaskId(response.params)
       IN \E failing \in SUBSET (TaskIds \ {t}) :
            response.data.waiting_on =
              ExpectedWaitingOn(t, response.params.includeSubtasks, failing)

\* A query of T1 with includeSubtasks true, while its subtask T2 and T2's
\* subtask T3 both wait on some task, returned the entries of T1 and of T2
\* without those of T3.
C18_Witness ==
  /\ response.op = "get"
  /\ response.success
  /\ GetTaskId(response.params) = "T1"
  /\ response.params.includeSubtasks = "true"
  /\ RecordedWaitingOn("T2") # <<>>
  /\ RecordedWaitingOn("T3") # <<>>
  /\ response.data.waiting_on = RecordedWaitingOn("T1") \o RecordedWaitingOn("T2")

\* The request lacks its dependencies array, or the array is empty, or one
\* of its items has no taskId.
Malformed(params) ==
  \/ ~params.given
  \/ params.dependencies = <<>>
  \/ \E k \in DOMAIN params.dependencies : ~Truthy(params.dependencies[k].taskId)

ListNames == {"List A", "List B", "No Such List", Undefined}

\* The call was given neither ID nor name for one of its references.
MissingReference(params) ==
  \/ ~Truthy(params.taskId) /\ ~Truthy(params.taskName)
  \/ /\ params.op = "add"
     /\ ~Truthy(params.dependsOnTaskId) /\ ~Truthy(params.dependsOnTaskName)
  \/ /\ params.op = "remove"
     /\ ~Truthy(params.dependencyTaskId) /\ ~Truthy(params.dependencyTaskName)

\* C20: resolveTaskId returns a given ID as it is, with no lookup and whether
\* or not the store holds the task or a name is given too; without ID and
\* with a name it returns what the one name search, within the list named
\* when one is, finds (the ID of the match, or nothing); without ID and name
\* it returns nothing and looks nothing up. A single operation given neither
\* ID nor name for one of its references fails without a remote write, and
\* none such is ever waiting to write.
C20_TaskResolver ==
  /\ \A id \in IdArgs, name \in NameArgs, list \in ListNames :
       /\ Truthy(id) =>
            /\ ResolveTaskId(id, name, list) = id
            /\ ResolveRequests(id, name, list) = <<>>
       /\ (~Truthy(id) /\ Truthy(name)) =>
            /\ ResolveTaskId(id, name, list) = FindTaskByName(name, list)
            /\ ResolveRequests(id, name, list) = <<FindTaskRequest(name, list)>>
       /\ (~Truthy(id) /\ ~Truthy(name)) =>
            /\ ResolveTaskId(id, name, list) = Null
            /\ ResolveRequests(id, name, list) = <<>>
  /\ \A c \in Callers : pc[c] # "idle" => ~MissingReference(req[c])
  /\ (response.op \in {"add", "remove", "get"} /\ MissingReference(response.params)) =>
       /\ ~response.success
       /\ response.error \in {UnresolvedTaskError, UnresolvedDependencyError}
       /\ Writes(response.sent) = <<>>

\* An add given the ID T2 together with the name of T1 for the dependent,
\* and only a name for the dependency, wrote the edge from T2: the one
\* search made was for the dependency.
C20_Witness ==
  /\ response.op = "add"
  /\ response.success
  /\ response.params.taskId = "T2"
  /\ response.params.taskName = "Task One"
  /\ response.params.dependsOnTaskId = Undefined
  /\ response.params.dependsOnTaskName = "Task One"
  /\ Creates(response.sent) = <<PostLinkRequest("T2", "T1")>>
  /\ Len(SelectSeq(response.sent, LAMBDA r : r.resource = "search")) = 1

\* The error a handler is to throw for a request that lacks a reference:
\* that of the dependent when it is missing, else that of the dependency.
ExpectedRejection(params) ==
  IF ~Truthy(params.taskId) /\ ~Truthy(params.taskName)
  THEN TaskReferenceRequiredError
  ELSE IF params.op = "add" THEN DependsOnReferenceRequiredError
  ELSE DependencyReferenceRequiredError

\* C21: a request to the add, remove or get handler that has neither taskId
\* nor taskName, and a request to the add or remove handler that has neither
\* ID nor name of the dependency, fails with no remote request sent and never
\* reaches a remote write; the dependent reference is tested first; what the
\* caller gets carries the message and the parameters of the request.
C21_HandlersRejectMissingReference ==
  /\ \A c \in Callers : pc[c] # "idle" => ~MissingReference(req[c])
  /\ (response.op \in {"add", "remove", "get"} /\ MissingReference(response.params)) =>
       /\ ~response.success
       /\ response.sent = <<>>
       /\ response.error = ExpectedRejection(response.params)
       /\ HandlerFailure(response) =
            [error |-> <<FailurePrefix(response.op),
                         ExpectedRejection(response.params).message>>,
             params |-> response.params]
  /\ (response.op \in {"add", "remove", "get"} /\ ~MissingReference(response.params)) =>
       response.error \notin {TaskReferenceRequiredError,
                              DependsOnReferenceRequiredError,
                              DependencyReferenceRequiredError}

\* An add without reference to the dependent, whose dependency is given by
\* name, was rejected for the dependent before the name was looked up.
C21_Witness ==
  /\ response.op = "add"
  /\ ~Truthy(response.params.taskId) /\ ~Truthy(response.params.taskName)
  /\ response.params.dependsOnTaskName = "Task One"
  /\ ~Truthy(response.params.dependsOnTaskId)
  /\ response.error = TaskReferenceRequiredError
  /\ response.sent = <<>>

\* C22: a single add that gets past the guard issues one creation request,
\* the one a bulk add issues for the same pair: POST on the dependency
\* endpoint of the dependent with depends_on the dependency and type code 0.
C22_SingleAddPostsAsBulk ==
  (response.op = "add" /\ Creates(response.sent) # <<>>) =>
    Creates(response.sent) =
      <<PostDependencyRequest(AddTaskId(response.params),
                              AddDependsOnTaskId(response.params))>>

\* C23: the descriptor a successful add returns names the dependent, the
\* dependency and the type code of waiting_on.
C23_AddReturnsWaitingOnDescriptor ==
  (response.op = "add" /\ response.success) =>
    /\ response.data.task_id = AddTaskId(response.params)
    /\ response.data.depends_on = AddDependsOnTaskId(response.params)
    /\ response.data.type = WaitingOnType

\* sub holds entries of seq in the order of seq.
RECURSIVE InOrder(_, _)
InOrder(sub, seq) ==
  IF sub = <<>> THEN TRUE
  ELSE IF seq = <<>> THEN FALSE
  ELSE IF Head(sub) = Head(seq) THEN InOrder(Tail(sub), Tail(seq))
  ELSE InOrder(sub, Tail(seq))

\* The number of pairs of the batch before pair j of item i.
PairsBefore(dependencies, i, j) ==
  Len(Flatten(SubSeq(dependencies, 1, i - 1))) + (j - 1)

\* The pairs of a batch are attempted one at a time in flattened input
\* order: while the call is at pair k every earlier pair is settled and
\* recorded, and no creation of pair k or later is requested; successful and
\* failed each list their pairs in input order.
AttemptedInOrder ==
  /\ \A c \in Callers :
       pc[c] \in {"bulkGuard", "bulkPost"} =>
         LET before == PairsBefore(req[c].dependencies, loc[c].i, loc[c].j)
             r == loc[c].results
         IN /\ Len(r.successful) + Len(r.failed) = before
            /\ Len(Creates(sent[c])) <= before
            /\ Flatten(req[c].dependencies)[before + 1]
                 = <<loc[c].taskId, loc[c].dependsOnTaskId>>
  /\ BulkReport =>
       /\ InOrder(PairsOf(response.data.successful),
                  Flatten(response.params.dependencies))
       /\ InOrder(PairsOf(response.data.failed),
                  Flatten(response.params.dependencies))

\* C24: the pairs of a batch are attempted strictly one at a time in
\* flattened input order, the guard of a pair running after the write of the
\* pair before it, and successful and failed list their pairs in that order;
\* so the report of a batch of (a, b) then (b, a) on an empty graph that
\* lists (a, b) as successful lists (b, a) as failed with the
\* circular-dependency message.
C24_PairsAttemptedInOrder ==
  /\ AttemptedInOrder
  /\ BulkReport =>
       LET flat == Flatten(response.params.dependencies)
           ok == PairsOf(response.data.successful)
           bad == PairsOf(response.data.failed)
       IN (/\ Len(flat) = 2
           /\ flat[1][1] # flat[1][2]
           /\ flat[2] = <<flat[1][2], flat[1][1]>>
           /\ ok # <<>> /\ ok[1] = flat[1]) =>
            /\ ok = <<flat[1]>>
            /\ bad = <<flat[2]>>
            /\ response.data.failed[1].error = CircularDependencyError.message

\* The records hold a two-task cycle.
TwoCycle(records) ==
  \E d \in Range(records) :
    d.task_id # d.depends_on /\ Dependency(d.depends_on, d.task_id) \in Range(records)

\* C25: an add that passed its guard and waits at its POST issues the POST
\* whatever has been written meanwhile: the step in which it returns adds
\* that one creation request to the requests of the call and no read, it
\* never fails with a validation error, and its edge is recorded when the
\* store accepts the write (and its /link feeds `dependencies`), else the
\* records stay; so two adds of (a, b) and (b, a) in flight together, their
\* guards both run before either write, close a two-task cycle unless the
\* store refuses.
C25_ConcurrentAddsRace ==
  [][\A c \in RaceCallers :
       (pc[c] = "addPost" /\ pc'[c] = "idle") =>
         LET taskId == loc[c].taskId
             dependsOnTaskId == loc[c].dependsOnTaskId
         IN /\ response'.sent = Append(sent[c], PostLinkRequest(taskId, dependsOnTaskId))
            /\ response'.error \in {NoError, RemoteError}
            /\ response'.success <=> response'.error = NoError
            /\ (response'.success /\ linkIsDependency) =>
                 Dependency(taskId, dependsOnTaskId) \in Range(deps')
            /\ ~response'.success => deps' = deps
            /\ (/\ response'.success /\ linkIsDependency
                /\ Dependency(dependsOnTaskId, taskId) \in Range(deps)) =>
                 TwoCycle(deps')]_vars

\* With every read answered, the store records that T1 waits on T2 and T2
\* on T1: two adds ran their guards before either wrote.
C25_Witness ==
  /\ ~readFailed
  /\ linkIsDependency
  /\ {Dependency("T1", "T2"), Dependency("T2", "T1")} \subseteq Range(deps)
  /\ response.op = "add"
  /\ response.success

\* No call is in flight and no response waits: the records of the store are
\* those a next call would find.
Quiet == response = NoResponse /\ \A c \in DOMAIN pc : pc[c] = "idle"

\* C26: the guard fails open. For two distinct tasks it does not throw when
\* the read of the dependency fails or the dependency is no task of the
\* store, nor when the read of the dependent as counterpart fails, whatever
\* the store records; an add of a dependency the store does not hold, single
\* or in bulk, therefore gets to its creation request and fails with the
\* store's error only; and an add is rejected as circular only when the
\* reverse edge is recorded.
C26_GuardFailsOpen ==
  /\ Quiet =>
       \A a \in Ids, b \in Ids, failing \in SUBSET TaskIds :
         (a # b /\ (GetTaskThrows(b, failing) \/ GetTaskThrows(a, failing))) =>
           /\ ~CheckCircularDependency(a, b, failing).threw
           /\ CheckCircularDependency(a, b, failing).requests # <<>>
  /\ (/\ response.op = "add"
      /\ Truthy(AddTaskId(response.params))
      /\ AddDependsOnTaskId(response.params) \in MissingIds
      /\ AddTaskId(response.params) # AddDependsOnTaskId(response.params)) =>
       /\ response.error = RemoteError
       /\ Creates(response.sent) =
            <<PostLinkRequest(AddTaskId(response.params),
                              AddDependsOnTaskId(response.params))>>
  /\ (/\ BulkReport
      /\ response.params.dependencies[1].dependsOn[1] \in MissingIds
      /\ response.params.dependencies[1].taskId \in TaskIds) =>
       /\ response.data.successful = <<>>
       /\ response.data.failed[1].error = RemoteError.message
       /\ Creates(response.sent) =
            <<PostDependencyRequest(response.params.dependencies[1].taskId,
                                    response.params.dependencies[1].dependsOn[1])>>

\* T1 is recorded to wait on T2 and, a read having failed, the add of the
\* reverse edge (T2 waits on T1) passed the guard and waits at its POST.
C26_Witness ==
  /\ Dependency("T1", "T2") \in Range(deps)
  /\ pc["c1"] = "addPost"
  /\ loc["c1"].taskId = "T2"
  /\ loc["c1"].dependsOnTaskId = "T1"
  /\ readFailed

\* C27: a bulk add with continueOnError that has attempted pairs and holds
\* a later item whose dependsOn is no list returns a top-level failure; the
\* step in which a bulk add that has attempted pairs fails at such an item
\* returns that failure without report (no data), though the requests
\* issued so far stay issued and every record the store held before the
\* step, and every pair listed as successful so far, is still recorded
\* after it.
C27_StructuralErrorLosesReport ==
  [][\A c \in Callers :
     /\ (/\ pc[c] \in {"bulkGuard", "bulkPost"}
         /\ response'.op = "bulk"
         /\ Truthy(req[c].continueOnError)
         /\ \E i \in DOMAIN req[c].dependencies :
              i > loc[c].i /\ ~req[c].dependencies[i].iterable) =>
          ~response'.success
     /\
       (/\ pc[c] \in {"bulkGuard", "bulkPost"}
        /\ response'.op = "bulk"
        /\ ~response'.success) =>
         /\ response'.data = Null
         /\ response'.error = NotIterableError
         /\ \E i \in DOMAIN req[c].dependencies :
              i > loc[c].i /\ ~req[c].dependencies[i].iterable
         /\ SubSeq(response'.sent, 1, Len(sent[c])) = sent[c]
         /\ Range(deps) \subseteq Range(deps')
         /\ \A k \in DOMAIN loc[c].results.successful :
              Dependency(loc[c].results.successful[k].taskId,
                         loc[c].results.successful[k].dependsOn) \in Range(deps')]_vars

\* A bulk add failed as a whole, with no report, after the store recorded an
\* edge it had created.
C27_Witness ==
  /\ response.op = "bulk"
  /\ ~response.success
  /\ response.data = Null
  /\ response.error = NotIterableError
  /\ deps # <<>>
  /\ Creates(response.sent) # <<>>

\* C28: whatever dependencyType an add names, or none: an add that gets
\* past its guard has queried the dependency (never the dependent) and holds
\* its two resolved IDs as they were given; its creation request is the one
\* for (dependent, dependency); the descriptor it returns and the record the
\* store adds are those of that pair, and no other record appears: the
\* inverse edge is never written.
C28_DependencyTypeIsIgnored ==
  [][\A c \in Callers :
     /\ (pc[c] = "idle" /\ pc'[c] = "addPost") =>
          LET a == AddTaskId(req'[c])
              b == AddDependsOnTaskId(req'[c])
          IN /\ loc'[c] = [taskId |-> a, dependsOnTaskId |-> b]
             /\ \E failing \in SUBSET ReadBy(b) :
                  sent'[c] =
                    ResolveRequests(req'[c].taskId, req'[c].taskName, req'[c].listName)
                      \o ResolveRequests(req'[c].dependsOnTaskId,
                                         req'[c].dependsOnTaskName,
                                         req'[c].dependsOnListName)
                      \o CheckCircularDependency(a, b, failing).requests
     /\ (pc[c] = "addPost" /\ pc'[c] = "idle") =>
          LET a == AddTaskId(req[c])
              b == AddDependsOnTaskId(req[c])
          IN /\ response'.params = req[c]
             /\ response'.sent = Append(sent[c], PostLinkRequest(a, b))
             /\ response'.success =>
                  /\ response'.data = AddedDependency(a, b)
                  /\ deps' = AfterPostLink(a, b)
             /\ ~response'.success => deps' = deps
             /\ Range(deps') \ Range(deps) \subseteq {Dependency(a, b)}]_vars

\* An add of (T1, T2) with dependencyType blocking returned the descriptor
\* of (T1, T2), and the store records that T1 waits on T2 and not the
\* inverse.
C28_Witness ==
  /\ response.op = "add"
  /\ response.success
  /\ response.params.dependencyType = "blocking"
  /\ response.data = AddedDependency("T1", "T2")
  /\ Creates(response.sent) = <<PostLinkRequest("T1", "T2")>>
  /\ linkIsDependency
  /\ Dependency("T1", "T2") \in Range(deps)
  /\ Dependency("T2", "T1") \notin Range(deps)

\* One of the two references of the add is given by name only.
GivenByName(params) ==
  \/ ~Truthy(params.taskId) /\ Truthy(params.taskName)
  \/ ~Truthy(params.dependsOnTaskId) /\ Truthy(params.dependsOnTaskName)

\* C29: the checks of a single add are made on the resolved IDs. An add
\* with a reference given by name whose two references resolve to the same
\* task fails with the self-dependency error after the name lookups alone,
\* with no write; no add waits at its POST with two equal IDs; and, no read
\* having failed, an add with a reference given by name whose reverse edge is
\* recorded has failed with the circular-dependency error and no write.
C29_ChecksUseResolvedIds ==
  /\ (/\ AddReturned
      /\ GivenByName(response.params)
      /\ AddTaskId(response.params) = AddDependsOnTaskId(response.params)) =>
       /\ ~response.success
       /\ response.error = SelfDependencyError
       /\ Writes(response.sent) = <<>>
       /\ response.sent =
            ResolveRequests(response.params.taskId, response.params.taskName,
                            response.params.listName)
              \o ResolveRequests(response.params.dependsOnTaskId,
                                 response.params.dependsOnTaskName,
                                 response.params.dependsOnListName)
  /\ \A c \in Callers :
       pc[c] = "addPost" =>
         /\ loc[c].taskId # loc[c].dependsOnTaskId
         /\ loc[c].taskId = AddTaskId(req[c])
         /\ loc[c].dependsOnTaskId = AddDependsOnTaskId(req[c])
  /\ (/\ AddReturned
      /\ GivenByName(response.params)
      /\ ~readFailed
      /\ Dependency(AddDependsOnTaskId(response.params), AddTaskId(response.params))
           \in Range(deps)) =>
       /\ response.error = CircularDependencyError
       /\ Writes(response.sent) = <<>>

\* An add of the dependent T1 given by ID on the dependency given by the
\* name of T1 failed with the self-dependency error after one name lookup.
C29_Witness ==
  /\ response.op = "add"
  /\ response.params.taskId = "T1"
  /\ response.params.dependsOnTaskId = Undefined
  /\ response.params.dependsOnTaskName = "Task One"
  /\ response.error = SelfDependencyError
  /\ response.sent = <<FindTaskRequest("Task One", Undefined)>>

\* The most requests a query of id may issue: the read of the task and of
\* the tasks it waits on and, with includeSubtasks, the same for each of its
\* direct subtasks.
MostQueryRequests(id, includeSubtasks) ==
  LET one(t) == 1 + Len(RecordedWaitingOn(t))
      RECURSIVE sum(_)
      sum(sts) == IF sts = <<>> THEN 0 ELSE one(Head(sts)) + sum(Tail(sts))
  IN one(id) + (IF Truthy(includeSubtasks) THEN sum(Subtasks(id)) ELSE 0)

\* C30: every remote call returning, a bulk add in flight eventually returns
\* its result; at every moment it has issued, for each pair, no more creation
\* requests than the batch holds that pair; a query returns in the step it
\* is made in, and has issued no more requests than the name lookup and the
\* reads of the task, of its direct subtasks and of the tasks these wait on.
C30_CallsTerminate ==
  /\ \A c \in Callers :
       (pc[c] \in {"bulkGuard", "bulkPost"}) ~> (pc[c] = "idle" /\ response.op = "bulk")
  /\ [](\A c \in Callers :
          pc[c] \in {"bulkGuard", "bulkPost"} =>
            LET flat == Flatten(req[c].dependencies)
            IN \A x \in Range(flat) \cup {<<r.task, r.depends_on>> :
                                            r \in Range(Creates(sent[c]))} :
                 Len(CreatesFor(sent[c], x)) <= Count(flat, x))
  /\ [](response.op = "bulk" =>
          LET flat == Flatten(response.params.dependencies)
          IN \A x \in Range(flat) \cup {<<r.task, r.depends_on>> :
                                          r \in Range(Creates(response.sent))} :
               Len(CreatesFor(response.sent, x)) <= Count(flat, x))
  /\ [](response.op = "get" =>
          /\ \A c \in Callers : pc[c] = "idle"
          /\ Len(response.sent) <=
               Len(ResolveRequests(response.params.taskId, response.params.taskName,
                                   response.params.listName))
                 + MostQueryRequests(GetTaskId(response.params),
                                     response.params.includeSubtasks))

\* A query of T1 with its subtasks, T2 and T3 both waiting on T1, returned
\* after three reads.
NestedQueryReturned ==
  /\ response.op = "get"
  /\ response.success
  /\ response.params.taskId = "T1"
  /\ response.params.includeSubtasks = "true"
  /\ RecordedWaitingOn("T3") # <<>>
  /\ response.sent = <<GetTaskRequest("T1"), GetTaskRequest("T2"),
                       GetTaskRequest("T1")>>

\* A bulk add of two items with continueOnError returned after both its
\* pairs were refused by the store, one creation request issued for each.
C30_Witness ==
  /\ BulkReport
  /\ response.params.continueOnError = "true"
  /\ Len(response.params.dependencies) = 2
  /\ Len(Flatten(response.params.dependencies)) = 2
  /\ Len(response.data.failed) = 2
  /\ Len(Creates(response.sent)) = 2
  /\ deps = <<>>

====
